---------------------------- MODULE Spec2Model ----------------------------
(***************************************************************************)
(* A model of the citation-graph and retrieval engine of the repository:   *)
(* papers/utils.py (reference extraction and resolution), papers/models.py *)
(* (the Paper / Reference / PaperChunk tables) and chatbot/rag_engine.py   *)
(* (chunking, ranking, network traversal).                                 *)
(*                                                                         *)
(* Strings are sequences of one-character strings, so that split, join,    *)
(* lower-casing and substring tests are computed as the code computes      *)
(* them.  A text has two facets: its characters, and the citation matches  *)
(* the regular expressions of _extract_references_from_text find in it.    *)
(***************************************************************************)
EXTENDS Integers, Sequences, FiniteSets, TLC

(***************************************************************************)
(* Bounds of the model.                                                    *)
(***************************************************************************)
MaxWords == 7
MaxChunkSize == 5
NetPapers == 3
MaxNetEdges == 3
MaxRankChunks == 7
MaxNetDepth == 2

(***************************************************************************)
(* Small arithmetic and sequence helpers.                                  *)
(***************************************************************************)
Min(a, b) == IF a < b THEN a ELSE b

Max(a, b) == IF a > b THEN a ELSE b

\* ceil(a / b) for b > 0, and 0 when a <= 0
Ceil(a, b) == IF a <= 0 THEN 0 ELSE (a + b - 1) \div b

Range(s) == {s[i] : i \in DOMAIN s}

\* Python's s[:n]
Take(s, n) == SubSeq(s, 1, Min(n, Len(s)))

\* Python's s[i:j] with 0 <= i
Slice(s, i, j) == SubSeq(s, i + 1, Min(j, Len(s)))

(***************************************************************************)
(* Strings: str.lower, str.split, " ".join, str.strip, the `in` test.      *)
(***************************************************************************)
UpperChars == <<"A", "B", "C", "D", "E", "F", "G", "H", "I", "J",
               "K", "L", "M", "N", "O", "P", "Q", "R", "S", "T",
               "U", "V", "W", "X", "Y", "Z">>

LowerChars == <<"a", "b", "c", "d", "e", "f", "g", "h", "i", "j",
               "k", "l", "m", "n", "o", "p", "q", "r", "s", "t",
               "u", "v", "w", "x", "y", "z">>

LowerChar(c) ==
    IF \E i \in DOMAIN UpperChars : UpperChars[i] = c
    THEN LowerChars[CHOOSE i \in DOMAIN UpperChars : UpperChars[i] = c]
    ELSE c

Lower(s) == [i \in DOMAIN s |-> LowerChar(s[i])]

IsSpace(c) == c = " "

RECURSIVE SplitAcc(_, _, _)
SplitAcc(s, cur, acc) ==
    IF s = <<>>
    THEN IF cur = <<>> THEN acc ELSE Append(acc, cur)
    ELSE IF IsSpace(Head(s))
         THEN SplitAcc(Tail(s), <<>>, IF cur = <<>> THEN acc ELSE Append(acc, cur))
         ELSE SplitAcc(Tail(s), Append(cur, Head(s)), acc)

\* str.split(): the maximal runs of non-whitespace characters
Split(s) == SplitAcc(s, <<>>, <<>>)

RECURSIVE Join(_)
Join(ws) ==
    IF ws = <<>> THEN <<>>
    ELSE IF Len(ws) = 1 THEN ws[1]
    ELSE ws[1] \o <<" ">> \o Join(Tail(ws))

RECURSIVE StripLeft(_)
StripLeft(s) ==
    IF s # <<>> /\ IsSpace(Head(s)) THEN StripLeft(Tail(s)) ELSE s

RECURSIVE StripRight(_)
StripRight(s) ==
    IF s # <<>> /\ IsSpace(s[Len(s)]) THEN StripRight(SubSeq(s, 1, Len(s) - 1)) ELSE s

Strip(s) == StripRight(StripLeft(s))

\* Python's `sub in s` on strings
Contains(sub, s) ==
    \E a \in {sub}, b \in {s} :
        \E i \in 0..(Len(b) - Len(a)) : \A k \in 1..Len(a) : b[i + k] = a[k]

(***************************************************************************)
(* Texts.                                                                  *)
(***************************************************************************)
\* none is TRUE for None (a NULL column); cites are the matches, in the order
\* the pattern loop of _extract_references_from_text yields them; dense says that
\* the matches lie within context_size characters of one another
NoText == [none |-> TRUE, chars |-> <<>>, cites |-> <<>>, dense |-> FALSE]

EmptyText == [none |-> FALSE, chars |-> <<>>, cites |-> <<>>, dense |-> FALSE]

PlainText(chars) == [none |-> FALSE, chars |-> chars, cites |-> <<>>, dense |-> FALSE]

CitingText(cites, dense) ==
    [none |-> FALSE, chars |-> <<"x">>, cites |-> cites, dense |-> dense]

WordChars == <<"a", "b", "c", "d", "e", "f", "g", "h", "i">>

\* a text of n distinct one-letter words; sep is the whitespace between two words
RECURSIVE WordsText(_, _)
WordsText(n, sep) ==
    IF n = 0 THEN <<>>
    ELSE IF n = 1 THEN <<WordChars[1]>>
    ELSE WordsText(n - 1, sep) \o sep \o <<WordChars[n]>>

ChunkTexts ==
    {WordsText(n, <<" ">>) : n \in 0..MaxWords}
        \cup {<<" ">> \o WordsText(n, <<" ", " ">>) \o <<" ">> : n \in 0..MaxWords}

(***************************************************************************)
(* State.                                                                  *)
(***************************************************************************)
VARIABLES
    papers,         \* the Paper table with each paper's PaperChunk rows, in creation order
    edges,          \* the Reference table, in creation order
    chunk_size,     \* RAGEngine.chunk_size
    chunk_overlap,  \* RAGEngine.chunk_overlap
    lastCall,       \* the last completed call: operation, argument, result
    net,            \* _get_reference_network_papers: its locals and call stack
    rank,           \* the last _get_relevant_chunks_simple call and its result
    stack,          \* per worker, the call stack of extract_references_from_paper
    crossref,       \* what api.crossref.org answers (status "unknown" until asked)
    arxiv,          \* what export.arxiv.org answers (status "unknown" until asked)
    hist,           \* the completed top-level extract_references_from_paper calls
    batch,          \* process_all_papers: its locals and position
    answer,         \* the last RAGEngine.query or query_reference_network call
    excerpt,        \* the last RAGEngine._extract_relevant_content call
    extractor,      \* the RecursiveReferenceExtractor instance and what it did
    tree            \* the last build_reference_graph call

vars == <<papers, edges, chunk_size, chunk_overlap, lastCall, net, rank,
          stack, crossref, arxiv, hist, batch, answer, excerpt, extractor, tree>>

extractVars == <<stack, crossref, arxiv, hist, batch>>

queryVars == <<answer, excerpt, extractor, tree>>

\* what a query call leaves alone
helperVars == <<excerpt, extractor, tree>>

rankVars == <<rank>>

engineVars == <<chunk_size, chunk_overlap>>

netVars == <<net>>

PaperIds == DOMAIN papers

NoCall == [op |-> "none", paper |-> 0, ret |-> FALSE, had_chunks |-> FALSE, seq |-> 0]

NoRank == [called |-> FALSE, question |-> <<>>, paper |-> 0, scores |-> <<>>,
           result |-> <<>>]

CrossrefNotAsked == [status |-> "unknown", items |-> <<>>]

ArxivNotAsked == [status |-> "unknown", entries |-> <<>>]

\* no query was made
NoAnswer == [called |-> FALSE, op |-> "none", question |-> <<>>, paper |-> 0,
             cross_paper |-> FALSE, max_depth |-> 0, fault |-> "none",
             raised |-> FALSE, message |-> FALSE, chunks |-> <<>>, sources |-> <<>>]

\* the command process_references_recursively --all is not running
NoBatch == [pc |-> "idle", recursive |-> FALSE, max_depth |-> 0, batch_size |-> 0,
            total_papers |-> 0, i |-> 0, slice |-> <<>>, j |-> 0,
            processed_count |-> 0, success_count |-> 0, error_count |-> 0]

NoExcerpt == [called |-> FALSE, question |-> <<>>, paper |-> 0, sentences |-> <<>>,
              text |-> <<>>]

NoExtractor == [processed_papers |-> {}, starts |-> <<>>, calls |-> <<>>, frames |-> <<>>]

NoTree == [called |-> FALSE, paper |-> 0, max_depth |-> 0,
           root |-> [id |-> 0, depth |-> 0, references |-> <<>>]]

\* no extraction running or run, no external service asked yet
ExtractIdle ==
    /\ stack = <<>>
    /\ crossref = CrossrefNotAsked
    /\ arxiv = ArxivNotAsked
    /\ hist = <<>>
    /\ batch = NoBatch
    /\ answer = NoAnswer
    /\ excerpt = NoExcerpt
    /\ extractor = NoExtractor
    /\ tree = NoTree

NoNet == [start |-> 0, max_depth |-> 0, stack |-> <<>>, visited |-> {},
          network_papers |-> <<>>, done |-> FALSE]

\* a row of the Paper table; year 0 is None, has_file FALSE is an empty FileField,
\* file_text is what _extract_text_from_file returns for the stored file,
\* processing_status is that of the paper's PaperMetadata row ("none": no row)
MkPaper(title, author, year, content, has_file, file_text, processed) ==
    [title |-> title, author |-> author, year |-> year, content_text |-> content,
     has_file |-> has_file, file_text |-> file_text, processed |-> processed,
     processing_status |-> "none", chunks |-> <<>>]

(***************************************************************************)
(* Chunking Engine: RAGEngine._split_text and RAGEngine.process_paper.     *)
(***************************************************************************)
\* range(0, n, step) for step > 0
RangeStarts(n, step) == [k \in 1..Ceil(n, step) |-> (k - 1) * step]

SplitText(text, size, overlap) ==
    LET words == Split(text)
        starts == RangeStarts(Len(words), size - overlap)
        all == [k \in DOMAIN starts |-> Join(Slice(words, starts[k], starts[k] + size))]
    IN  SelectSeq(all, LAMBDA c : Strip(c) # <<>>)



\* process_paper without its "already processed" check: PaperChunk.objects.create
\* then violates unique_together (paper, chunk_index) and the handler returns False
ProcessPaperNoSkip(db, id) ==
    LET paper == db[id]
        text == IF paper.content_text.chars = <<>> THEN paper.file_text
                ELSE paper.content_text
        chunks == SplitText(text.chars, chunk_size, chunk_overlap)
    IN  IF paper.content_text.chars = <<>> /\ ~paper.has_file
        THEN [papers |-> db, ret |-> FALSE]
        ELSE IF paper.chunks # <<>> /\ chunks # <<>>
        THEN [papers |-> [db EXCEPT ![id].content_text = text], ret |-> FALSE]
        ELSE [papers |-> [db EXCEPT ![id].content_text = text,
                                    ![id].chunks = chunks,
                                    ![id].processed = TRUE],
              ret |-> TRUE]

\* RAGEngine.process_paper on the paper with this id: the table afterwards and
\* the value returned
ProcessPaper(db, id) ==
    LET paper == db[id]
        text == IF paper.content_text.chars = <<>> THEN paper.file_text
                ELSE paper.content_text
    IN  IF paper.chunks # <<>>
        THEN [papers |-> db, ret |-> TRUE]
        ELSE IF paper.content_text.chars = <<>> /\ ~paper.has_file
        THEN [papers |-> db, ret |-> FALSE]      \* paper.file.path raises, caught
        ELSE [papers |-> [db EXCEPT ![id].content_text = text,
                                    ![id].chunks =
                                        SplitText(text.chars, chunk_size, chunk_overlap),
                                    ![id].processed = TRUE],
              ret |-> TRUE]

ProcessPaperCall(p) ==
    LET r == ProcessPaper(papers, p)
    IN  /\ papers' = r.papers
        /\ lastCall' = [op |-> "process_paper", paper |-> p, ret |-> r.ret,
                        had_chunks |-> papers[p].chunks # <<>>,
                        seq |-> 1 - lastCall.seq]
        /\ UNCHANGED <<edges, engineVars, netVars, rankVars, extractVars, queryVars>>

\* PaperDownloader.download_paper succeeding: the file is stored and
\* _update_paper_metadata resets the processed flag
DownloadPaperCall(p, text) ==
    /\ papers' = [papers EXCEPT ![p].has_file = TRUE,
                                ![p].file_text = text,
                                ![p].processing_status = "downloaded",
                                ![p].processed = FALSE]
    /\ lastCall' = [op |-> "download_paper", paper |-> p, ret |-> TRUE,
                    had_chunks |-> papers[p].chunks # <<>>,
                    seq |-> 1 - lastCall.seq]
    /\ UNCHANGED <<edges, engineVars, netVars, rankVars, extractVars, queryVars>>

(***************************************************************************)
(* Specification of the chunking engine: one paper, any text, any valid    *)
(* window configuration; process_paper and download_paper in any order.    *)
(***************************************************************************)
TitleX == <<"x">>

InitChunk ==
    /\ chunk_size \in 2..MaxChunkSize
    /\ chunk_overlap \in 0..(chunk_size - 1)
    /\ \E t \in ChunkTexts, kind \in {"file", "text", "empty"} :
          papers = << MkPaper(TitleX, TitleX, 0,
                        IF kind = "text" THEN PlainText(t) ELSE NoText,
                        kind = "file",
                        IF kind = "file" THEN PlainText(t) ELSE NoText,
                        FALSE) >>
    /\ edges = <<>>
    /\ lastCall = NoCall
    /\ net = NoNet
    /\ rank = NoRank
    /\ ExtractIdle

NextChunk ==
    \/ \E p \in PaperIds : ProcessPaperCall(p)
    \/ \E p \in PaperIds, t \in ChunkTexts : DownloadPaperCall(p, PlainText(t))

SpecChunk == InitChunk /\ [][NextChunk]_vars

\* the words of the text the chunks of paper p were cut from
WordsOf(p) == Split(papers[p].content_text.chars)

\* C7: a text of W > chunk_overlap words is cut into exactly
\* ceil((W - chunk_overlap) / (chunk_size - chunk_overlap)) chunks.
C7_ChunkCount ==
    \A p \in PaperIds :
        (papers[p].chunks # <<>> /\ Len(WordsOf(p)) > chunk_overlap)
            => Len(papers[p].chunks)
                   = Ceil(Len(WordsOf(p)) - chunk_overlap, chunk_size - chunk_overlap)

\* C8: the last chunk_overlap words of every chunk are the first chunk_overlap
\* words of the next chunk, the last pair included.
C8_ChunkOverlap ==
    \A p \in PaperIds :
        \A i \in 1..(Len(papers[p].chunks) - 1) :
            LET a == Split(papers[p].chunks[i])
                b == Split(papers[p].chunks[i + 1])
            IN  /\ Len(a) >= chunk_overlap
                /\ Len(b) >= chunk_overlap
                /\ SubSeq(a, Len(a) - chunk_overlap + 1, Len(a)) = SubSeq(b, 1, chunk_overlap)

\* C9: process_paper on a paper that has chunks returns True and changes nothing
\* of the paper; no step changes the chunks of a paper that has some.
C9_RechunkNoOp ==
    [][\A p \in PaperIds :
          papers[p].chunks # <<>> =>
              /\ papers'[p].chunks = papers[p].chunks
              /\ (lastCall'.op = "process_paper" /\ lastCall'.paper = p
                      /\ lastCall'.seq # lastCall.seq)
                    => (lastCall'.ret /\ papers'[p] = papers[p])]_vars

\* a process_paper call on an already chunked paper whose flag a download had reset
C9_Witness ==
    /\ lastCall.op = "process_paper"
    /\ lastCall.had_chunks
    /\ ~papers[lastCall.paper].processed
    /\ Len(papers[lastCall.paper].chunks) >= 2

(***************************************************************************)
(* Network Traversal: RAGEngine._get_reference_network_papers.             *)
(***************************************************************************)
\* a row of the Reference table
MkEdge(s, t) == [source |-> s, target |-> t]

\* a queryset of Reference rows in Meta.ordering ['-created_at']: newest first
NewestFirst(rows) == [i \in DOMAIN rows |-> rows[Len(rows) + 1 - i]]

\* paper.references.all(), as the list of target papers
ReferencesOf(es, p) ==
    LET rows == NewestFirst(SelectSeq(es, LAMBDA e : e.source = p))
    IN  [i \in DOMAIN rows |-> rows[i].target]

\* paper.cited_by.all(), as the list of source papers
CitedByOf(es, p) ==
    LET rows == NewestFirst(SelectSeq(es, LAMBDA e : e.target = p))
    IN  [i \in DOMAIN rows |-> rows[i].source]

\* the papers the two loops of _add_papers_recursive(paper, depth) go through
NetTodo(es, p, depth, max_depth) ==
    IF depth >= max_depth THEN <<>> ELSE ReferencesOf(es, p) \o CitedByOf(es, p)

\* visited.add(id) forgotten
NetMarkVisitedForgets(visited, id) == visited

\* visited.add(id)
NetMarkVisited(visited, id) == visited \cup {id}

\* the call _get_reference_network_papers(start_paper, max_depth) is entered
NetFrame(p, depth) == [paper |-> p, depth |-> depth,
                       todo |-> NetTodo(edges, p, depth, net.max_depth)]

\* one iteration of a loop of _add_papers_recursive: the next reference (or
\* citation) of the paper on top of the call stack is looked at
NetVisit ==
    /\ ~net.done
    /\ net.stack # <<>>
    /\ LET top == net.stack[Len(net.stack)]
           n == Head(top.todo)
           rest == [net.stack EXCEPT ![Len(net.stack)].todo = Tail(top.todo)]
       IN  /\ top.todo # <<>>
           /\ IF n \notin net.visited
              THEN net' = [net EXCEPT
                       !.network_papers = Append(@, n),
                       !.visited = NetMarkVisited(@, n),
                       !.stack = Append(rest, NetFrame(n, top.depth + 1))]
              ELSE net' = [net EXCEPT !.stack = rest]
    /\ UNCHANGED <<papers, edges, engineVars, lastCall, rankVars, extractVars, queryVars>>

\* a call of _add_papers_recursive returns
NetReturn ==
    /\ ~net.done
    /\ net.stack # <<>>
    /\ net.stack[Len(net.stack)].todo = <<>>
    /\ net' = [net EXCEPT !.stack = SubSeq(@, 1, Len(@) - 1)]
    /\ UNCHANGED <<papers, edges, engineVars, lastCall, rankVars, extractVars, queryVars>>

\* _get_reference_network_papers returns network_papers
NetDone ==
    /\ ~net.done
    /\ net.stack = <<>>
    /\ net' = [net EXCEPT !.done = TRUE]
    /\ UNCHANGED <<papers, edges, engineVars, lastCall, rankVars, extractVars, queryVars>>

\* the reference tables over n papers of at most m rows
RECURSIVE NetEdgeLists(_, _)
NetEdgeLists(n, m) ==
    IF m = 0 THEN {<<>>}
    ELSE LET shorter == NetEdgeLists(n, m - 1)
         IN  shorter \cup
             {Append(es, MkEdge(pr[1], pr[2])) :
                 es \in {x \in shorter : Len(x) = m - 1},
                 pr \in (1..n) \X (1..n)}

NoDuplicateEdge(es) ==
    \A i, j \in DOMAIN es : es[i] = es[j] => i = j

\* any reference graph over n papers with at most m Reference rows; the
\* traversal starts at paper 1
InitNetOn(n, m) ==
    /\ papers = [i \in 1..n |->
                    MkPaper(TitleX, TitleX, 0, NoText, FALSE, NoText, FALSE)]
    /\ edges \in {es \in NetEdgeLists(n, m) : NoDuplicateEdge(es)}
    /\ chunk_size = 2
    /\ chunk_overlap = 1
    /\ lastCall = NoCall
    /\ rank = NoRank
    /\ ExtractIdle
    /\ \E d \in 0..MaxNetDepth :
          net = [start |-> 1, max_depth |-> d,
                 stack |-> << [paper |-> 1, depth |-> 0,
                               todo |-> NetTodo(edges, 1, 0, d)] >>,
                 visited |-> {1}, network_papers |-> <<1>>, done |-> FALSE]

InitNet == InitNetOn(NetPapers, MaxNetEdges)

InitNetWide == InitNetOn(NetPapers + 1, MaxNetEdges + 1)

NextNet == NetVisit \/ NetReturn \/ NetDone

\* the traversal is a plain sequential call: it keeps running until it returns
SpecNet == InitNet /\ [][NextNet]_vars /\ WF_vars(NextNet)

\* the same traversal over graphs of one more paper and one more row
SpecNetWide == InitNetWide /\ [][NextNet]_vars /\ WF_vars(NextNet)

\* the papers within k hops of the start paper, a hop following a Reference row
\* in either direction
RECURSIVE WithinHops(_)
WithinHops(k) ==
    IF k = 0 THEN {net.start}
    ELSE LET near == WithinHops(k - 1)
         IN  near \cup {p \in PaperIds :
                 \E i \in DOMAIN edges :
                     \/ edges[i].source \in near /\ edges[i].target = p
                     \/ edges[i].target \in near /\ edges[i].source = p}

NetNoRepeat ==
    /\ \A i, j \in DOMAIN net.network_papers :
          net.network_papers[i] = net.network_papers[j] => i = j
    /\ Cardinality({i \in DOMAIN net.network_papers :
                        net.network_papers[i] = net.start}) = 1

\* C3: on every reference graph, cycles and self-loops included, and for every
\* max_depth >= 0 the traversal returns, and the list it builds never holds a
\* paper twice (the start paper exactly once).
C3_NetTerminates == <>(net.done) /\ [](NetNoRepeat)

\* a finished traversal of a graph with the 2-cycle 1 -> b -> 1 that went on
\* from b to a third paper
C3_Witness ==
    /\ net.done
    /\ net.max_depth = 2
    /\ \E b \in PaperIds \ {1} :
          \E i, j \in DOMAIN edges :
              edges[i] = MkEdge(1, b) /\ edges[j] = MkEdge(b, 1)
    /\ Len(net.network_papers) = 3

\* C4: the list returned holds every paper within max_depth hops of the start.
C4_NetComplete ==
    net.done => WithinHops(net.max_depth) \subseteq Range(net.network_papers)

(***************************************************************************)
(* Relevance Scorer: RAGEngine._get_relevant_chunks_simple and the         *)
(* functions it calls.                                                     *)
(***************************************************************************)
TopK == 5

FallbackCount == 3

\* the five topical clusters of _extract_key_concepts
ConceptClusters ==
    <<
       [triggers |-> << <<"m", "o", "b", "i", "l", "e">>,
                       <<"d", "e", "v", "i", "c", "e">>,
                       <<"s", "m", "a", "r", "t", "p", "h", "o", "n", "e">>,
                       <<"t", "a", "b", "l", "e", "t">>,
                       <<"p", "h", "o", "n", "e">> >>,
        concepts |-> << <<"m", "o", "b", "i", "l", "e">>,
                       <<"d", "e", "v", "i", "c", "e">>,
                       <<"s", "m", "a", "r", "t", "p", "h", "o", "n", "e">>,
                       <<"t", "a", "b", "l", "e", "t">> >>],
       [triggers |-> << <<"l", "e", "a", "r", "n">>,
                       <<"s", "t", "u", "d", "y">>,
                       <<"e", "d", "u", "c", "a", "t", "i", "o", "n">>,
                       <<"t", "e", "a", "c", "h", "i", "n", "g">> >>,
        concepts |-> << <<"l", "e", "a", "r", "n">>,
                       <<"s", "t", "u", "d", "y">>,
                       <<"e", "d", "u", "c", "a", "t", "i", "o", "n">>,
                       <<"t", "e", "a", "c", "h", "i", "n", "g">> >>],
       [triggers |-> << <<"l", "a", "n", "g", "u", "a", "g", "e">>,
                       <<"e", "n", "g", "l", "i", "s", "h">>,
                       <<"v", "o", "c", "a", "b", "u", "l", "a", "r", "y">>,
                       <<"g", "r", "a", "m", "m", "a", "r">> >>,
        concepts |-> << <<"l", "a", "n", "g", "u", "a", "g", "e">>,
                       <<"e", "n", "g", "l", "i", "s", "h">>,
                       <<"v", "o", "c", "a", "b", "u", "l", "a", "r", "y">>,
                       <<"g", "r", "a", "m", "m", "a", "r">> >>],
       [triggers |-> << <<"r", "e", "a", "s", "o", "n">>,
                       <<"w", "h", "y">>,
                       <<"p", "u", "r", "p", "o", "s", "e">>,
                       <<"b", "e", "n", "e", "f", "i", "t">>,
                       <<"a", "d", "v", "a", "n", "t", "a", "g", "e">> >>,
        concepts |-> << <<"r", "e", "a", "s", "o", "n">>,
                       <<"w", "h", "y">>,
                       <<"p", "u", "r", "p", "o", "s", "e">>,
                       <<"b", "e", "n", "e", "f", "i", "t">>,
                       <<"a", "d", "v", "a", "n", "t", "a", "g", "e">> >>],
       [triggers |-> << <<"h", "o", "w">>,
                       <<"m", "e", "t", "h", "o", "d">>,
                       <<"p", "r", "o", "c", "e", "s", "s">>,
                       <<"w", "a", "y">> >>,
        concepts |-> << <<"h", "o", "w">>,
                       <<"m", "e", "t", "h", "o", "d">>,
                       <<"p", "r", "o", "c", "e", "s", "s">>,
                       <<"w", "a", "y">> >>]
    >>

ExplanatoryWords ==
    << <<"b", "e", "c", "a", "u", "s", "e">>,
       <<"s", "i", "n", "c", "e">>,
       <<"a", "s">>,
       <<"d", "u", "e", " ", "t", "o">>,
       <<"r", "e", "a", "s", "o", "n">>,
       <<"p", "u", "r", "p", "o", "s", "e">>,
       <<"b", "e", "n", "e", "f", "i", "t">> >>

ProceduralWords ==
    << <<"p", "r", "o", "c", "e", "s", "s">>,
       <<"m", "e", "t", "h", "o", "d">>,
       <<"s", "t", "e", "p">>,
       <<"p", "r", "o", "c", "e", "d", "u", "r", "e">>,
       <<"w", "a", "y">>,
       <<"a", "p", "p", "r", "o", "a", "c", "h">> >>

DefinitionalWords ==
    << <<"i", "s">>,
       <<"a", "r", "e">>,
       <<"m", "e", "a", "n", "s">>,
       <<"r", "e", "f", "e", "r", "s", " ", "t", "o">>,
       <<"d", "e", "f", "i", "n", "e", "d", " ", "a", "s">>,
       <<"c", "o", "n", "s", "i", "s", "t", "s", " ", "o", "f">> >>

\* _extract_key_concepts(question): list(set(concepts))
ExtractKeyConcepts(question) ==
    UNION {Range(ConceptClusters[k].concepts) :
              k \in {c \in DOMAIN ConceptClusters :
                         \E i \in DOMAIN ConceptClusters[c].triggers :
                             Contains(ConceptClusters[c].triggers[i], question)}}

\* the number of words of the list found in the text, each list entry counted
CountFound(words, text) ==
    Cardinality({i \in DOMAIN words : Contains(words[i], text)})

\* _score_question_specific_content(question, chunk_content)
ScoreQuestionSpecificContent(question, chunk_content) ==
    IF Contains(<<"w", "h", "y">>, question) \/ Contains(<<"r", "e", "a", "s", "o", "n">>, question)
    THEN 2 * CountFound(ExplanatoryWords, chunk_content)
    ELSE IF Contains(<<"h", "o", "w">>, question)
    THEN 2 * CountFound(ProceduralWords, chunk_content)
    ELSE IF Contains(<<"w", "h", "a", "t">>, question)
    THEN 2 * CountFound(DefinitionalWords, chunk_content)
    ELSE 0

\* question_words of _get_relevant_chunks_simple
QuestionWords(question_lower) ==
    SelectSeq(Split(question_lower), LAMBDA w : Len(w) > 2)

\* the score the loop body of _get_relevant_chunks_simple gives one chunk
ScoreOne(question_lower, key_concepts, question_words, content) ==
    LET chunk_lower == Lower(content)
    IN  5 * Cardinality({c \in key_concepts : Contains(c, chunk_lower)})
        + CountFound(question_words, chunk_lower)
        + 3 * Cardinality({i \in 1..(Len(question_words) - 1) :
                  Contains(question_words[i] \o <<" ">> \o question_words[i + 1],
                           chunk_lower)})
        + ScoreQuestionSpecificContent(question_lower, chunk_lower)

\* the score of one chunk for a question
ChunkScore(question, content) ==
    ScoreOne(Lower(question), ExtractKeyConcepts(Lower(question)),
             QuestionWords(Lower(question)), content)

\* a descending sort that puts equal scores in reverse order
SortByScoreUnstable(cs) ==
    LET before(j, i) ==
            \/ cs[j].score > cs[i].score
            \/ cs[j].score = cs[i].score /\ j > i
        pos(i) == 1 + Cardinality({j \in DOMAIN cs : before(j, i)})
    IN  [k \in DOMAIN cs |-> cs[CHOOSE i \in DOMAIN cs : pos(i) = k]]

\* list.sort(key=score, reverse=True): descending, stable
SortByScore(cs) ==
    LET before(j, i) ==
            \/ cs[j].score > cs[i].score
            \/ cs[j].score = cs[i].score /\ j < i
        pos(i) == 1 + Cardinality({j \in DOMAIN cs : before(j, i)})
    IN  [k \in DOMAIN cs |-> cs[CHOOSE i \in DOMAIN cs : pos(i) = k]]

\* a fallback that finds nothing
FallbackSearchEmpty(question, chunks) == <<>>

\* _fallback_search(question, chunks): list(chunks[:3]), as chunk indices
FallbackSearch(question, chunks) ==
    [i \in 1..Min(FallbackCount, Len(chunks)) |-> i - 1]

\* the scores the loop of _get_relevant_chunks_simple computes, by chunk
ScoreAll(question, chunks) ==
    LET question_lower == Lower(question)
        key_concepts == ExtractKeyConcepts(question_lower)
        question_words == QuestionWords(question_lower)
    IN  [i \in DOMAIN chunks |->
            ScoreOne(question_lower, key_concepts, question_words, chunks[i])]

\* the rest of _get_relevant_chunks_simple, given the score of each chunk: the
\* chunk_index of each chunk returned, in the order returned
SelectRelevant(question, chunks, scores) ==
    LET scored == [i \in DOMAIN chunks |-> [chunk |-> i - 1, score |-> scores[i]]]
        chunk_scores == SortByScore(SelectSeq(scored, LAMBDA x : x.score > 0))
        top == Take(chunk_scores, TopK)
        relevant_chunks == [i \in DOMAIN top |-> top[i].chunk]
    IN  IF chunks = <<>> THEN <<>>
        ELSE IF relevant_chunks = <<>>
        THEN FallbackSearch(Lower(question), chunks)
        ELSE relevant_chunks

\* _get_relevant_chunks_simple(question, paper)
GetRelevantChunksSimple(question, paper) ==
    SelectRelevant(question, paper.chunks, ScoreAll(question, paper.chunks))

\* one query per behaviour: the call reads the tables and writes nothing
RankCall(p, q) ==
    LET scores == ScoreAll(q, papers[p].chunks)
    IN  /\ ~rank.called
        /\ rank' = [called |-> TRUE, question |-> q, paper |-> p, scores |-> scores,
                    result |-> SelectRelevant(q, papers[p].chunks, scores)]
        /\ UNCHANGED <<papers, edges, engineVars, lastCall, netVars, extractVars, queryVars>>

(***************************************************************************)
(* Specification of the ranking: one paper with any chunks, any question.  *)
(***************************************************************************)
RankQuestions ==
    { <<"W", "h", "y", " ", "u", "s", "e", " ", "m", "o", "b", "i", "l", "e", " ", "d", "e", "v", "i", "c", "e", "s">>,
      <<"h", "o", "w", " ", "d", "o", "e", "s", " ", "i", "t", " ", "w", "o", "r", "k">>,
      <<"w", "h", "a", "t", " ", "i", "s", " ", "a", " ", "g", "r", "a", "p", "h">>,
      <<"z", "z", "z">> }

RankChunkTexts ==
    { <<"b", "e", "c", "a", "u", "s", "e", " ", "m", "o", "b", "i", "l", "e", " ", "d", "e", "v", "i", "c", "e", "s", " ", "h", "e", "l", "p">>,
      <<"t", "h", "e", " ", "m", "e", "t", "h", "o", "d", " ", "i", "s", " ", "a", " ", "s", "t", "e", "p">>,
      <<"m", "o", "b", "i", "l", "e", " ", "w", "a", "y">> }

RECURSIVE ChunkLists(_)
ChunkLists(n) ==
    IF n = 0 THEN {<<>>}
    ELSE LET shorter == ChunkLists(n - 1)
         IN  shorter \cup
             {Append(cs, c) : cs \in {x \in shorter : Len(x) = n - 1},
                              c \in RankChunkTexts}

InitRank ==
    /\ \E cs \in ChunkLists(MaxRankChunks) :
          papers = << [MkPaper(TitleX, TitleX, 0, PlainText(<<"x">>), FALSE, NoText,
                               cs # <<>>)
                         EXCEPT !.chunks = cs] >>
    /\ edges = <<>>
    /\ chunk_size = 2
    /\ chunk_overlap = 1
    /\ lastCall = NoCall
    /\ net = NoNet
    /\ rank = NoRank
    /\ ExtractIdle

NextRank == \E p \in PaperIds, q \in RankQuestions : RankCall(p, q)

SpecRank == InitRank /\ [][NextRank]_vars

\* the score of the chunk with this chunk_index in the last ranking call
RankScore(ci) == rank.scores[ci + 1]

RankIndices == {i - 1 : i \in DOMAIN papers[rank.paper].chunks}

\* C10: for a paper with chunks the ranking returns a non-empty list: positive
\* chunks only (at most top_k) when some chunk scores above 0, else the first
\* min(3, n) chunks in index order.
C10_RankNeverEmpty ==
    (rank.called /\ papers[rank.paper].chunks # <<>>) =>
        /\ rank.result # <<>>
        /\ IF \E ci \in RankIndices : RankScore(ci) > 0
           THEN /\ Len(rank.result) <= TopK
                /\ \A k \in DOMAIN rank.result :
                      rank.result[k] \in RankIndices /\ RankScore(rank.result[k]) > 0
           ELSE rank.result =
                    [i \in 1..Min(3, Len(papers[rank.paper].chunks)) |-> i - 1]

\* a ranking of more than top_k positive chunks beside a chunk that scores 0
C10_Witness ==
    /\ rank.called
    /\ Cardinality({ci \in RankIndices : RankScore(ci) > 0}) > TopK
    /\ \E ci \in RankIndices : RankScore(ci) = 0
    /\ Len(rank.result) = TopK

\* a ranking in which no chunk scores above 0: the fallback answers
C10_WitnessFallback ==
    /\ rank.called
    /\ Len(papers[rank.paper].chunks) > 3
    /\ \A ci \in RankIndices : RankScore(ci) = 0
    /\ rank.result = <<0, 1, 2>>

\* C11: when some chunk scores above 0, the ranking returns min(top_k, number
\* of positive chunks) distinct positive chunks, in non-increasing score order
\* with equal scores in chunk-index order, and every omitted chunk scores no
\* higher than every returned one (an omitted chunk of equal score has a
\* larger index).
C11_RankOrder ==
    (rank.called /\ \E ci \in RankIndices : RankScore(ci) > 0) =>
        LET result == rank.result
            returned == Range(result)
            positive == {ci \in RankIndices : RankScore(ci) > 0}
        IN  /\ Len(result) = Min(TopK, Cardinality(positive))
            /\ returned \subseteq positive
            /\ Cardinality(returned) = Len(result)
            /\ \A k, l \in DOMAIN result :
                  k < l => \/ RankScore(result[k]) > RankScore(result[l])
                           \/ /\ RankScore(result[k]) = RankScore(result[l])
                              /\ result[k] < result[l]
            /\ \A o \in RankIndices \ returned : \A ci \in returned :
                  \/ RankScore(o) < RankScore(ci)
                  \/ RankScore(o) = RankScore(ci) /\ ci < o

\* a ranking with two positive score levels out of chunk order, a tie among
\* the returned chunks, and a positive chunk left out by the top_k cut
C11_Witness ==
    /\ rank.called
    /\ Len(rank.result) = TopK
    /\ \E ci, cj \in RankIndices :
          ci < cj /\ 0 < RankScore(ci) /\ RankScore(ci) < RankScore(cj)
    /\ \E k \in 1..(TopK - 1) :
          RankScore(rank.result[k]) = RankScore(rank.result[k + 1])
    /\ \E o \in RankIndices \ Range(rank.result) : RankScore(o) > 0


(***************************************************************************)
(* Specification of the scorer: a paper of two chunks, the second being    *)
(* the first with one more occurrence of a question word put in as a word  *)
(* of its own before word k of the chunk (after the last word for k = n).  *)
(***************************************************************************)
InsertWord(content, word, k) ==
    LET ws == Split(content)
    IN  Join(Take(ws, k) \o <<word>> \o Slice(ws, k, Len(ws)))

\* the words a question of the vocabulary is matched by
ScoreKeywords == UNION {Range(QuestionWords(Lower(q))) : q \in RankQuestions}

InitScore ==
    /\ \E c \in RankChunkTexts, w \in ScoreKeywords :
          \E k \in 0..Len(Split(c)) :
             papers = << [MkPaper(TitleX, TitleX, 0, PlainText(<<"x">>), FALSE,
                                  NoText, TRUE)
                            EXCEPT !.chunks = <<c, InsertWord(c, w, k)>>] >>
    /\ edges = <<>>
    /\ chunk_size = 2
    /\ chunk_overlap = 1
    /\ lastCall = NoCall
    /\ net = NoNet
    /\ rank = NoRank
    /\ ExtractIdle

SpecScore == InitScore /\ [][NextRank]_vars

\* the second chunk is the first with one more occurrence of a word of the
\* question asked
KeywordInserted ==
    /\ rank.called
    /\ Len(papers[rank.paper].chunks) = 2
    /\ \E w \in Range(QuestionWords(Lower(rank.question))) :
          \E k \in 0..Len(Split(papers[rank.paper].chunks[1])) :
             papers[rank.paper].chunks[2] =
                 InsertWord(papers[rank.paper].chunks[1], w, k)

\* C12: a chunk with one more occurrence of a question keyword scores at least
\* what the chunk without it scores.
C12_ScoreMonotone ==
    KeywordInserted => RankScore(1) >= RankScore(0)


(***************************************************************************)
(* Reference Extraction: _extract_references_from_text.                    *)
(* A match is what one regular expression finds at one place: the author,  *)
(* year and title groups (the title is "" for the two-group pattern).      *)
(***************************************************************************)
MinAuthorLen == 3
MinTitleLen == 10
MinYear == 1900
MaxYear == 2030

MkMatch(author, year, title) == [author |-> author, year |-> year, title |-> title]

StopTitles ==
    {<<"c", "o", "r", "r", "e", "c", "t", "i", "o", "n">>,
     <<"p", "a", "g", "e", "s">>,
     <<"f", "i", "g", "u", "r", "e">>,
     <<"t", "a", "b", "l", "e">>,
     <<"a", "p", "p", "e", "n", "d", "i", "x">>,
     <<"s", "u", "p", "p", "l", "e", "m", "e", "n", "t", "a", "r", "y">>}

\* the "basic validation" of a match
ValidMatch(m) ==
    /\ Len(m.author) > MinAuthorLen
    /\ MinYear < m.year /\ m.year < MaxYear
    /\ Len(m.title) > MinTitleLen
    /\ Lower(m.title) \notin StopTitles

\* _extract_reference_context: the matches lying in the window around match i
ExtractReferenceContext(text, i) ==
    IF text.dense THEN text.cites ELSE <<text.cites[i]>>

\* the reference dictionaries appended by the pattern loop
RawReferences(text) ==
    LET all == [i \in DOMAIN text.cites |->
                   [author |-> Strip(text.cites[i].author),
                    year |-> text.cites[i].year,
                    title |-> Strip(text.cites[i].title),
                    text |-> text.cites[i],
                    context |-> ExtractReferenceContext(text, i)]]
    IN  SelectSeq(all, ValidMatch)

\* a removal of duplicates in which the last of each key stays
UniqueRefsKeepLast(refs) ==
    LET Key(r) == <<Lower(r.author), r.year>>
        kept == SelectSeq([i \in DOMAIN refs |->
                              [ref |-> refs[i],
                               keep |-> ~\E j \in (i + 1)..Len(refs) :
                                            Key(refs[j]) = Key(refs[i])]],
                          LAMBDA x : x.keep)
    IN  [k \in DOMAIN kept |-> kept[k].ref]

\* "remove duplicates based on author and year": the first of each key stays
UniqueRefs(refs) ==
    LET Key(r) == <<Lower(r.author), r.year>>
        unique_refs[i \in 0..Len(refs)] ==
            IF i = 0 THEN <<>>
            ELSE IF \E j \in 1..(i - 1) : Key(refs[j]) = Key(refs[i])
                 THEN unique_refs[i - 1]
                 ELSE Append(unique_refs[i - 1], refs[i])
    IN  unique_refs[Len(refs)]

ExtractReferencesFromText(text) ==
    CHOOSE unique_refs \in {UniqueRefs(references) :
                               references \in {RawReferences(text)}} : TRUE


(***************************************************************************)
(* Reference Resolution: _find_or_create_referenced_paper,                 *)
(* _search_external_paper_enhanced, _calculate_similarity.                 *)
(***************************************************************************)
TitleMatchChars == 100
AuthorMatchChars == 50
TitleMaxChars == 500
AuthorMaxChars == 200

\* queryset.first() under Paper.Meta.ordering ['-uploaded_at']: the newest of
\* the rows, 0 for None
FirstPaper(ids) ==
    IF ids = {} THEN 0 ELSE CHOOSE p \in ids : \A q \in ids : q <= p

\* the local lookups without the exact-title one
FindPaperNoExact(db, title, title_part, author_part, year) ==
    LET partial == {p \in DOMAIN db :
                       /\ Contains(title_part, Lower(db[p].title))
                       /\ Contains(author_part, Lower(db[p].author))}
        author_year == {p \in DOMAIN db :
                           /\ Contains(author_part, Lower(db[p].author))
                           /\ db[p].year = year}
    IN  IF partial # {} THEN FirstPaper(partial) ELSE FirstPaper(author_year)

\* the local lookups with the author-and-year one tried before the partial one
FindPaperYearFirst(db, title, title_part, author_part, year) ==
    LET exact == {p \in DOMAIN db : Lower(db[p].title) = title}
        partial == {p \in DOMAIN db :
                       /\ Contains(title_part, Lower(db[p].title))
                       /\ Contains(author_part, Lower(db[p].author))}
        author_year == {p \in DOMAIN db :
                           /\ Contains(author_part, Lower(db[p].author))
                           /\ db[p].year = year}
    IN  IF exact # {} THEN FirstPaper(exact)
        ELSE IF author_year # {} THEN FirstPaper(author_year)
        ELSE FirstPaper(partial)

\* the three local lookups for a title and an author in lower case and a year,
\* in order; 0 when none finds a paper
FindPaper(db, title, title_part, author_part, year) ==
    LET exact == {p \in DOMAIN db : Lower(db[p].title) = title}
        partial == {p \in DOMAIN db :
                       /\ Contains(title_part, Lower(db[p].title))
                       /\ Contains(author_part, Lower(db[p].author))}
        author_year == {p \in DOMAIN db :
                           /\ Contains(author_part, Lower(db[p].author))
                           /\ db[p].year = year}
    IN  IF exact # {} THEN FirstPaper(exact)
        ELSE IF partial # {} THEN FirstPaper(partial)
        ELSE FirstPaper(author_year)

FindExistingPaper(db, ref) ==
    CHOOSE found \in
        {FindPaper(db, title, title_part, author_part, ref.year) :
            title \in {Lower(ref.title)},
            title_part \in {Lower(Take(ref.title, TitleMatchChars))},
            author_part \in {Lower(Take(ref.author, AuthorMatchChars))}} : TRUE

\* set(s.lower().split())
WordSet(s) == CHOOSE words \in {Range(Split(l)) : l \in {Lower(s)}} : TRUE

\* Jaccard similarity of two word sets as the fraction <<numerator, denominator>>
Jaccard(set1, set2) ==
    IF set1 = {} \/ set2 = {} THEN <<0, 1>>
    ELSE <<Cardinality(set1 \cap set2), Cardinality(set1 \cup set2)>>

\* _calculate_similarity
CalculateSimilarity(str1, str2) ==
    IF str1 = <<>> \/ str2 = <<>> THEN <<0, 1>>
    ELSE CHOOSE r \in {Jaccard(set1, set2) :
                          set1 \in {WordSet(str1)}, set2 \in {WordSet(str2)}} : TRUE

\* score = title_similarity * 0.7 + author_similarity * 0.3, as a fraction
MatchScore(ref, item) ==
    CHOOSE score \in
        {<<7 * t[1] * a[2] + 3 * a[1] * t[2], 10 * t[2] * a[2]>> :
            t \in {CalculateSimilarity(ref.title, item.title)},
            a \in {CalculateSimilarity(ref.author, item.author)}} : TRUE

FracGreater(x, y) == x[1] * y[2] > y[1] * x[2]

MinScore == <<6, 10>>

\* the loop over data['message']['items']: the index of best_match, 0 for None
RECURSIVE BestMatchFrom(_, _, _)
BestMatchFrom(scores, k, best) ==
    IF k > Len(scores) THEN best
    ELSE IF /\ FracGreater(scores[k], IF best = 0 THEN <<0, 1>> ELSE scores[best])
            /\ FracGreater(scores[k], MinScore)
         THEN BestMatchFrom(scores, k + 1, k)
         ELSE BestMatchFrom(scores, k + 1, best)

BestMatch(ref, items) ==
    CHOOSE best \in
        {BestMatchFrom(scores, 1, 0) :
            scores \in {[k \in DOMAIN items |-> MatchScore(ref, items[k])]}} : TRUE

\* the content_text of a paper made from a reference: of all it embeds, the
\* patterns match the reference text and the matches of the context again
PlaceholderText(ref) == CitingText(<<ref.text>> \o ref.context, TRUE)

ExternalText(ref) == CitingText(ref.context, TRUE)

\* a search in which a failing CrossRef request is followed by the arXiv request
SearchExternalArxivAfterError(ref, cr, ax) ==
    IF ax.status = "ok" /\ ax.entries # <<>>
    THEN [found |-> TRUE, asked_arxiv |-> TRUE,
          paper |-> MkPaper(Take(Strip(ax.entries[1].title), TitleMaxChars),
                            Take(Strip(ax.entries[1].author), AuthorMaxChars),
                            ref.year, ExternalText(ref), FALSE, NoText, TRUE)]
    ELSE [found |-> FALSE, asked_arxiv |-> TRUE,
          paper |-> MkPaper(<<>>, <<>>, 0, NoText, FALSE, NoText, FALSE)]

\* _search_external_paper_enhanced under the given answers of the two services:
\* the row it creates (found FALSE when it returns None)
SearchExternalPaperEnhanced(ref, cr, ax) ==
    LET none == [found |-> FALSE, asked_arxiv |-> FALSE,
                 paper |-> MkPaper(<<>>, <<>>, 0, NoText, FALSE, NoText, FALSE)]
        FromItem(item) ==
            [found |-> TRUE, asked_arxiv |-> FALSE,
             paper |-> MkPaper(Take(IF item.title # <<>> THEN item.title
                                    ELSE ref.title, TitleMaxChars),
                               Take(IF item.author # <<>> THEN item.author
                                    ELSE ref.author, AuthorMaxChars),
                               IF item.year # 0 THEN item.year ELSE ref.year,
                               ExternalText(ref), FALSE, NoText, TRUE)]
        FromArxiv ==
            IF ax.status = "ok" /\ ax.entries # <<>>
            THEN [found |-> TRUE, asked_arxiv |-> TRUE,
                  paper |-> MkPaper(Take(Strip(ax.entries[1].title), TitleMaxChars),
                                    Take(Strip(ax.entries[1].author), AuthorMaxChars),
                                    ref.year, ExternalText(ref), FALSE, NoText, TRUE)]
            ELSE [none EXCEPT !.asked_arxiv = TRUE]
    IN  IF cr.status = "error" THEN none
        ELSE IF cr.status = "ok" /\ cr.items # <<>>
        THEN CHOOSE r \in {IF best # 0 THEN FromItem(cr.items[best]) ELSE FromArxiv :
                              best \in {BestMatch(ref, cr.items)}} : TRUE
        ELSE FromArxiv

\* the row _find_or_create_referenced_paper returns when no lookup finds one:
\* the one of the external search ext, or else a placeholder
CreateReferencedPaper(ref, ext) ==
    IF ext.found THEN ext.paper
    ELSE     MkPaper(Take(ref.title, TitleMaxChars), Take(ref.author, AuthorMaxChars),
                     ref.year, PlaceholderText(ref), FALSE, NoText, TRUE)

(***************************************************************************)
(* _update_paper_metadata: the year is read off the title when unset.      *)
(***************************************************************************)
Digits == <<"0", "1", "2", "3", "4", "5", "6", "7", "8", "9">>

IsDigit(c) == \E d \in DOMAIN Digits : Digits[d] = c

DigitValue(c) == (CHOOSE d \in DOMAIN Digits : Digits[d] = c) - 1

\* \w of the regular expressions
IsWordChar(c) ==
    \/ IsDigit(c)
    \/ c = "_"
    \/ \E i \in DOMAIN LowerChars : LowerChars[i] = c \/ UpperChars[i] = c

\* re.search(r'\b(19|20)\d{2}\b', title): the places where it matches
YearPlaces(title) ==
    {i \in 1..(Len(title) - 3) :
        /\ \/ title[i] = "1" /\ title[i + 1] = "9"
           \/ title[i] = "2" /\ title[i + 1] = "0"
        /\ IsDigit(title[i + 2]) /\ IsDigit(title[i + 3])
        /\ i = 1 \/ ~IsWordChar(title[i - 1])
        /\ i + 3 = Len(title) \/ ~IsWordChar(title[i + 4])}

\* int(year_match.group(0)) of the leftmost match, 0 when there is none
YearInTitle(title) ==
    IF YearPlaces(title) = {} THEN 0
    ELSE LET i == CHOOSE j \in YearPlaces(title) : \A k \in YearPlaces(title) : j <= k
         IN  1000 * DigitValue(title[i]) + 100 * DigitValue(title[i + 1])
                 + 10 * DigitValue(title[i + 2]) + DigitValue(title[i + 3])

UpdatePaperMetadata(db, p) ==
    [db EXCEPT ![p].processing_status = "completed",
               ![p].year = IF db[p].year = 0 /\ YearInTitle(db[p].title) # 0
                           THEN YearInTitle(db[p].title) ELSE db[p].year]


(***************************************************************************)
(* The strings of the model: authors and titles of cited and stored        *)
(* papers.                                                                 *)
(***************************************************************************)
AuthorSmith == <<"S", "m", "i", "t", "h">>

AuthorSmithEtAl == <<"S", "m", "i", "t", "h", " ", "e", "t", " ", "a", "l", ".">>

AuthorJones == <<"J", "o", "n", "e", "s">>

AuthorLee == <<"L", "e", "e">>

AuthorKim == <<"K", "i", "m">>

AuthorJohnSmith == <<"J", "o", "h", "n", " ", "S", "m", "i", "t", "h">>

TitleGraph == <<"G", "r", "a", "p", "h", " ", "t", "h", "e", "o", "r", "y", ".">>

TitleGraphLower == <<"g", "r", "a", "p", "h", " ", "t", "h", "e", "o", "r", "y", ".">>

TitleGraphUpper == <<"G", "R", "A", "P", "H", " ", "T", "H", "E", "O", "R", "Y", ".">>

TitleOnGraph ==
    <<"O", "n", " ", "g", "r", "a", "p", "h", " ", "t", "h", "e", "o",
      "r", "y", ".">>

TitleSurvey == <<"A", " ", "s", "u", "r", "v", "e", "y", ".">>

TitleNetworks == <<"N", "e", "t", "w", "o", "r", "k", "s", " ", "2", "0", "2", "0">>

TitleGraphs == <<"G", "r", "a", "p", "h", "s", ".">>

MaxCites == 2
MaxDepth == 2
MaxCalls == 2
MaxConcDepth == 1

\* what the patterns can find in a text: a full citation, one by a group of
\* authors with a longer title, one of the same title in other letter case, a
\* bare "Author (Year)" and one whose author is too short
CiteMatches ==
    {MkMatch(AuthorSmith, 2020, TitleGraph),
     MkMatch(AuthorSmithEtAl, 2020, TitleOnGraph),
     MkMatch(AuthorJones, 2021, TitleGraphUpper),
     MkMatch(AuthorSmith, 2020, <<>>),
     MkMatch(AuthorLee, 2021, TitleGraph)}

RECURSIVE SeqsUpTo(_, _)
SeqsUpTo(S, n) ==
    IF n = 0 THEN {<<>>}
    ELSE SeqsUpTo(S, n - 1)
            \cup {Append(q, x) : q \in {r \in SeqsUpTo(S, n - 1) : Len(r) = n - 1}, x \in S}

\* the texts of an uploaded paper: up to MaxCites matches, close together or apart
CitingTexts(n) ==
    {CitingText(c, d) : c \in SeqsUpTo(CiteMatches, n), d \in BOOLEAN}
        \ {CitingText(c, TRUE) : c \in SeqsUpTo(CiteMatches, 1)}

\* answers of api.crossref.org: an exception, a non-200 status, or items
CrossrefAnswers ==
    {[status |-> "error", items |-> <<>>],
     [status |-> "non200", items |-> <<>>],
     [status |-> "ok",
      items |-> << [title |-> TitleOnGraph, author |-> <<>>, year |-> 0],
                   [title |-> TitleGraphLower, author |-> AuthorSmithEtAl,
                    year |-> 2021] >>]}

\* answers of export.arxiv.org: an exception, no entry, or an entry
ArxivAnswers ==
    {[status |-> "error", entries |-> <<>>],
     [status |-> "ok", entries |-> <<>>],
     [status |-> "ok", entries |-> << [title |-> TitleGraphs,
                                       author |-> AuthorJohnSmith] >>]}


(***************************************************************************)
(* Recursive Processing: extract_references_from_paper and                 *)
(* _process_references_recursively, one step per database access.  Each    *)
(* worker (a request or the background thread of reference_graph/views.py) *)
(* has a stack of frames; an "extract" frame is a call of                  *)
(* extract_references_from_paper, a "recurse" frame a call of              *)
(* _process_references_recursively.                                        *)
(***************************************************************************)
Workers == DOMAIN stack

\* nested and skipped record, for the caller, the papers its recursion
\* extracted and the papers it skipped for having references; conflicts counts
\* the IntegrityErrors its get_or_create calls ran into
ExtractFrame(p, recursive, max_depth) ==
    [kind |-> "extract", paper |-> p, recursive |-> recursive, max_depth |-> max_depth,
     pc |-> "begin", refs |-> <<>>, i |-> 1, created_count |-> 0,
     referenced_papers |-> <<>>, cur |-> 0, edges_before |-> Len(edges),
     nested |-> {}, skipped |-> {}, conflicts |-> 0]

RecurseFrame(ps, max_depth) ==
    [kind |-> "recurse", paper |-> 0, recursive |-> TRUE, max_depth |-> max_depth,
     pc |-> "loop", refs |-> <<>>, i |-> 1, created_count |-> 0,
     referenced_papers |-> ps, cur |-> 0, edges_before |-> Len(edges),
     nested |-> {}, skipped |-> {}, conflicts |-> 0]

Top(w) == stack[w][Len(stack[w])]

Running(w) == stack[w] # <<>>

AtStep(w, kind, pc) == Running(w) /\ Top(w).kind = kind /\ Top(w).pc = pc

SetTop(w, f) == [stack EXCEPT ![w][Len(stack[w])] = f]

\* the call on top of the stack of worker w returns ret; a top-level call is
\* entered in hist
ReturnFrom(w, f, ret) ==
    /\ stack' = [stack EXCEPT ![w] = SubSeq(@, 1, Len(@) - 1)]
    /\ hist' = IF Len(stack[w]) = 1
               THEN Append(hist, [paper |-> f.paper, recursive |-> f.recursive,
                                  max_depth |-> f.max_depth, ret |-> ret,
                                  created_count |-> f.created_count,
                                  edges_before |-> f.edges_before,
                                  edges_after |-> Len(edges),
                                  conflicts |-> f.conflicts])
               ELSE hist

\* a caller (a view, the management command) calls extract_references_from_paper;
\* the model follows up to limit calls
StartCall(w, p, recursive, max_depth, limit) ==
    /\ ~Running(w)
    /\ Len(hist) + Cardinality({v \in Workers : Running(v)}) < limit
    /\ stack' = [stack EXCEPT ![w] = <<ExtractFrame(p, recursive, max_depth)>>]
    /\ UNCHANGED <<papers, edges, engineVars, lastCall, netVars, rankVars, batch, queryVars,
                   crossref, arxiv, hist>>

\* lines 21-31: load the paper, process it when it has no text, parse the text;
\* a None text makes re.finditer raise, and the call returns False
Begin(w) ==
    /\ AtStep(w, "extract", "begin")
    /\ \E f \in {Top(w)} :
       \E db \in {IF papers[f.paper].content_text.chars = <<>>
                   THEN ProcessPaper(papers, f.paper).papers ELSE papers} :
       \E text \in {db[f.paper].content_text} :
          /\ papers' = db
          /\ IF text.none
             THEN ReturnFrom(w, f, FALSE)
             ELSE \E references \in {ExtractReferencesFromText(text)} :
                     /\ stack' = SetTop(w, [f EXCEPT !.refs = references,
                                                     !.pc = "resolve"])
                     /\ UNCHANGED hist
    /\ UNCHANGED <<edges, engineVars, lastCall, netVars, rankVars, batch, queryVars,
                   crossref, arxiv>>

\* lines 195-218: the local lookups of _find_or_create_referenced_paper
Resolve(w) ==
    /\ AtStep(w, "extract", "resolve")
    /\ Top(w).i <= Len(Top(w).refs)
    /\ \E f \in {Top(w)} :
       \E ref_data \in {f.refs[f.i]} :
       \E found \in {FindExistingPaper(papers, ref_data)} :
          stack' = SetTop(w, IF found # 0
                             THEN [f EXCEPT !.cur = found, !.pc = "link"]
                             ELSE [f EXCEPT !.pc = "create"])
    /\ UNCHANGED <<papers, edges, engineVars, lastCall, netVars, rankVars, batch, queryVars,
                   crossref, arxiv, hist>>

\* lines 221-261: no paper was found; the external services are asked and a
\* paper is created from their answer or as a placeholder
Create(w) ==
    /\ AtStep(w, "extract", "create")
    /\ \E cr \in (IF crossref = CrossrefNotAsked THEN CrossrefAnswers ELSE {crossref}),
          ax \in (IF arxiv = ArxivNotAsked THEN ArxivAnswers ELSE {arxiv}) :
       \E f \in {Top(w)} :
       \E ref_data \in {f.refs[f.i]} :
       \E ext \in {SearchExternalPaperEnhanced(ref_data, cr, ax)} :
          /\ papers' = Append(papers, CreateReferencedPaper(ref_data, ext))
          /\ crossref' = cr
          /\ arxiv' = IF ext.asked_arxiv THEN ax ELSE arxiv
          /\ stack' = SetTop(w, [f EXCEPT !.cur = Len(papers) + 1, !.pc = "link"])
    /\ UNCHANGED <<edges, engineVars, lastCall, netVars, rankVars, batch, queryVars, hist>>

EdgeExists(es, s, t) == \E k \in DOMAIN es : es[k] = MkEdge(s, t)

\* the loop moves on to the next reference
NextReference(f, created) ==
    [f EXCEPT !.i = @ + 1, !.pc = "resolve", !.cur = 0,
              !.created_count = IF created THEN @ + 1 ELSE @,
              !.referenced_papers = IF created THEN Append(@, f.cur) ELSE @]

\* Reference.objects.get_or_create, its get
LinkGet(w) ==
    /\ AtStep(w, "extract", "link")
    /\ \E f \in {Top(w)} :
          stack' = SetTop(w, IF EdgeExists(edges, f.paper, f.cur)
                             THEN NextReference(f, FALSE)
                             ELSE [f EXCEPT !.pc = "insert"])
    /\ UNCHANGED <<papers, edges, engineVars, lastCall, netVars, rankVars, batch, queryVars,
                   crossref, arxiv, hist>>

\* an INSERT into a Reference table without unique_together
InsertReferenceUnconstrained(es, s, t) == Append(es, MkEdge(s, t))

\* the table after the INSERT of get_or_create under unique_together
\* (source_paper, target_paper): a duplicate raises IntegrityError, no row is added
InsertReference(es, s, t) ==
    IF EdgeExists(es, s, t) THEN es ELSE Append(es, MkEdge(s, t))

\* Reference.objects.get_or_create, its create; after an IntegrityError the
\* row is fetched again and created is False
LinkInsert(w) ==
    /\ AtStep(w, "extract", "insert")
    /\ \E f \in {Top(w)} :
       \E es \in {InsertReference(edges, f.paper, f.cur)} :
          /\ edges' = es
          /\ stack' = SetTop(w, IF es # edges
                                THEN NextReference(f, TRUE)
                                ELSE [NextReference(f, FALSE)
                                         EXCEPT !.conflicts = @ + 1])
    /\ UNCHANGED <<papers, engineVars, lastCall, netVars, rankVars, batch, queryVars,
                   crossref, arxiv, hist>>

\* a recursion that hands its own max_depth on
RecursionBudgetSame(max_depth) == max_depth

\* the max_depth extract_references_from_paper hands to the recursion
RecursionBudget(max_depth) == max_depth - 1

\* lines 54-59: after the loop, _update_paper_metadata and, when recursive and
\* max_depth > 0, the call of _process_references_recursively
Finish(w) ==
    /\ AtStep(w, "extract", "resolve")
    /\ Top(w).i > Len(Top(w).refs)
    /\ \E f \in {Top(w)} :
       \E g \in {[f EXCEPT !.pc = "return"]} :
          /\ papers' = UpdatePaperMetadata(papers, f.paper)
          /\ stack' = IF f.recursive /\ f.max_depth > 0
                      THEN [SetTop(w, g) EXCEPT ![w] =
                               Append(@, RecurseFrame(f.referenced_papers,
                                                      RecursionBudget(f.max_depth)))]
                      ELSE SetTop(w, g)
    /\ UNCHANGED <<edges, engineVars, lastCall, netVars, rankVars, batch, queryVars,
                   crossref, arxiv, hist>>

\* a recursion that skips no paper
HasReferencesNever(es, t) == FALSE

\* paper.references.exists()
HasReferences(es, t) == ReferencesOf(es, t) # <<>>

\* _process_references_recursively: one turn of its loop, or its return
RecurseStep(w) ==
    /\ AtStep(w, "recurse", "loop")
    /\ \E f \in {Top(w)}, n \in {Len(stack[w])} :
          IF f.max_depth <= 0 \/ f.i > Len(f.referenced_papers)
          THEN stack' = [stack EXCEPT ![w] = [SubSeq(@, 1, n - 1)
                                                EXCEPT ![n - 1].nested = f.nested,
                                                       ![n - 1].skipped = f.skipped]]
          ELSE \E t \in {f.referenced_papers[f.i]} :
                  stack' =
                     IF HasReferences(edges, t)
                     THEN SetTop(w, [f EXCEPT !.i = @ + 1, !.skipped = @ \cup {t}])
                     ELSE [SetTop(w, [f EXCEPT !.i = @ + 1, !.nested = @ \cup {t}])
                             EXCEPT ![w] = Append(@, ExtractFrame(t, TRUE, f.max_depth))]
    /\ UNCHANGED <<papers, edges, engineVars, lastCall, netVars, rankVars, batch, queryVars,
                   crossref, arxiv, hist>>

\* line 61: return True
Return(w) ==
    /\ AtStep(w, "extract", "return")
    /\ \E f \in {Top(w)} : ReturnFrom(w, f, TRUE)
    /\ UNCHANGED <<papers, edges, engineVars, lastCall, netVars, rankVars, batch, queryVars,
                   crossref, arxiv>>


(***************************************************************************)
(* Specification of reference extraction: an uploaded paper citing up to   *)
(* MaxCites works, possibly beside another stored paper; up to MaxCalls    *)
(* calls of extract_references_from_paper, one after the other.            *)
(***************************************************************************)
\* the uploaded paper: its text is stored, or is still in its file, or is missing
UploadedPaper(kind, text) ==
    MkPaper(TitleSurvey, AuthorKim, 0,
            IF kind = "text" THEN text ELSE NoText,
            kind = "file",
            IF kind = "file" THEN text ELSE NoText,
            kind = "text")

\* the papers stored beside it
OtherPapers ==
    {<<>>,
     << MkPaper(TitleGraph, AuthorSmith, 2020, PlainText(<<"x">>), FALSE, NoText, TRUE) >>,
     << MkPaper(TitleNetworks, AuthorJohnSmith, 0, PlainText(<<"x">>), FALSE, NoText,
                TRUE) >>}

\* the arguments of a call: recursive with a depth, or not recursive
ExtractInputs ==
    {[recursive |-> TRUE, max_depth |-> d] : d \in 0..MaxDepth}
        \cup {[recursive |-> FALSE, max_depth |-> MaxDepth]}

InitExtract(workers, texts, kinds, others) ==
    /\ chunk_size = MaxChunkSize
    /\ chunk_overlap = 1
    /\ \E text \in texts, kind \in kinds, other \in others :
          papers = <<UploadedPaper(kind, text)>> \o other
    /\ edges = <<>>
    /\ lastCall = NoCall
    /\ net = NoNet
    /\ rank = NoRank
    /\ stack = [w \in 1..workers |-> <<>>]
    /\ crossref = CrossrefNotAsked
    /\ arxiv = ArxivNotAsked
    /\ hist = <<>>
    /\ batch = NoBatch
    /\ answer = NoAnswer
    /\ excerpt = NoExcerpt
    /\ extractor = NoExtractor
    /\ tree = NoTree

NextExtract(inputs, limit) ==
    \E w \in Workers :
        \/ \E p \in PaperIds, in \in inputs :
              StartCall(w, p, in.recursive, in.max_depth, limit)
        \/ Begin(w)
        \/ Resolve(w)
        \/ Create(w)
        \/ LinkGet(w)
        \/ LinkInsert(w)
        \/ Finish(w)
        \/ RecurseStep(w)
        \/ Return(w)

Init == InitExtract(1, CitingTexts(MaxCites), {"text", "file", "none"}, OtherPapers)

Next == NextExtract(ExtractInputs, MaxCalls)

Spec == Init /\ [][Next]_vars

(***************************************************************************)
(* Specification of one call with any depth, which runs to its end.        *)
(***************************************************************************)
\* a depth may be any integer
AnyDepthInputs ==
    ExtractInputs \cup {[recursive |-> TRUE, max_depth |-> 0 - 1]}

InitOnce ==
    InitExtract(1, CitingTexts(MaxCites - 1), {"text", "file", "none"}, OtherPapers)

NextOnce == NextExtract(AnyDepthInputs, 1)

\* a call that can take a step takes it: weak fairness
SpecOnce == InitOnce /\ [][NextOnce]_vars /\ WF_vars(NextOnce)

\* on the stack of worker w, a nested call has a smaller max_depth than its callers
DepthDecreasing(w) ==
    \A i, j \in DOMAIN stack[w] :
        (i < j /\ stack[w][i].kind = "extract" /\ stack[w][j].kind = "extract")
            => stack[w][j].max_depth < stack[w][i].max_depth

\* C5: every nested call of extract_references_from_paper has a max_depth
\* strictly smaller than its caller's, and every call returns.
C5_ExtractionTerminates ==
    /\ [](DepthDecreasing(1))
    /\ Running(1) ~> ~Running(1)

\* a recursive call of the largest depth has returned after extracting a paper
\* it had created, whose text contains citations again
C5_Witness ==
    /\ Len(hist) = 1
    /\ hist[1].recursive /\ hist[1].max_depth = MaxDepth /\ hist[1].ret
    /\ \E k \in DOMAIN edges :
          /\ edges[k].source # 1
          /\ papers[edges[k].source].content_text.cites # <<>>

(***************************************************************************)
(* Specification of concurrent writers: two workers and two calls, each    *)
(* paper citing at most one work.                                          *)
(***************************************************************************)
ConcInputs == {[recursive |-> TRUE, max_depth |-> d] : d \in 0..MaxConcDepth}

InitConc == InitExtract(2, CitingTexts(1), {"text"}, OtherPapers)

\* one call per worker, at the same time or one after the other
NextConc == NextExtract(ConcInputs, Cardinality(Workers))

SpecConc == InitConc /\ [][NextConc]_vars

\* C2: the Reference table never holds two rows of the same ordered
\* (source paper, target paper) pair.
C2_EdgeUnique == NoDuplicateEdge(edges)

\* two concurrent calls raced on one pair: one created the row, the other got
\* the IntegrityError
C2_Witness ==
    /\ \E k \in DOMAIN hist : hist[k].conflicts > 0
    /\ edges # <<>>

\* C1: when extract_references_from_paper is run twice in a row on the same
\* paper with the same arguments and the first run returned True, the second
\* run leaves the Reference table as it was and creates zero edges.
C1_Idempotent ==
    \A k \in 1..(Len(hist) - 1) :
        (/\ hist[k].paper = hist[k + 1].paper
         /\ hist[k].recursive = hist[k + 1].recursive
         /\ hist[k].max_depth = hist[k + 1].max_depth
         /\ hist[k].ret)
            => /\ hist[k + 1].edges_after = hist[k].edges_after
               /\ hist[k + 1].created_count = 0

\* C6: when a call with recursive=True and max_depth = d > 0 is through with its
\* recursion, every target of an edge it created was extracted with budget
\* d - 1, unless it had outgoing edges.
C6_DepthSemantics ==
    \A w \in Workers :
        (AtStep(w, "extract", "return") /\ Top(w).recursive /\ Top(w).max_depth > 0)
            => \A t \in Range(Top(w).referenced_papers) :
                  \/ t \in Top(w).nested
                  \/ t \in Top(w).skipped
                  \/ ReferencesOf(edges, t) # <<>>

\* the reference worker w is resolving, and the papers whose title equals its
\* title up to case
CurrentRef(w) == Top(w).refs[Top(w).i]

SameTitle(db, ref) == {p \in DOMAIN db : Lower(db[p].title) = Lower(ref.title)}

\* C13: when a paper with the reference's title (up to case) is stored, the
\* resolution of the reference returns such a paper, creates no paper and
\* asks no external service.
C13_RoundTrip ==
    [][\A w \in Workers :
          (/\ AtStep(w, "extract", "resolve")
           /\ Top(w).i <= Len(Top(w).refs)
           /\ SameTitle(papers, CurrentRef(w)) # {}
           /\ stack'[w] # stack[w])
          => /\ papers' = papers
             /\ crossref' = crossref
             /\ arxiv' = arxiv
             /\ Len(stack'[w]) = Len(stack[w])
             /\ stack'[w][Len(stack[w])].pc = "link"
             /\ stack'[w][Len(stack[w])].cur \in SameTitle(papers, CurrentRef(w))]_vars

\* a reference resolved, with no service ever asked, to a stored paper whose
\* title differs from the reference's in case and whose author and year differ
C13_Witness ==
    /\ AtStep(1, "extract", "link")
    /\ crossref = CrossrefNotAsked
    /\ arxiv = ArxivNotAsked
    /\ Top(1).cur \in SameTitle(papers, CurrentRef(1))
    /\ papers[Top(1).cur].title # CurrentRef(1).title
    /\ papers[Top(1).cur].author # CurrentRef(1).author
    /\ papers[Top(1).cur].year # CurrentRef(1).year

\* in this step a request of the external search raised: the CrossRef request
\* did, or CrossRef answered with a status other than 200 and the arXiv
\* request did
LookupRaised ==
    \/ crossref'.status = "error"
    \/ crossref'.status = "non200" /\ arxiv'.status = "error"

\* C14: when no stored paper matches and a request of the external lookup
\* raises, the resolution goes on: it returns a new placeholder paper made of
\* the reference's own title, author and year, and the extraction continues
\* with the edge to it.
C14_LookupFailureIsNoMatch ==
    [][\A w \in Workers :
          (/\ AtStep(w, "extract", "create")
           /\ stack'[w] # stack[w]
           /\ LookupRaised)
          => /\ Len(papers') = Len(papers) + 1
             /\ SubSeq(papers', 1, Len(papers)) = papers
             /\ papers'[Len(papers')].title = Take(CurrentRef(w).title, TitleMaxChars)
             /\ papers'[Len(papers')].author = Take(CurrentRef(w).author, AuthorMaxChars)
             /\ papers'[Len(papers')].year = CurrentRef(w).year
             /\ papers'[Len(papers')].content_text = PlaceholderText(CurrentRef(w))
             /\ papers'[Len(papers')].processed
             /\ Len(stack'[w]) = Len(stack[w])
             /\ stack'[w][Len(stack[w])].pc = "link"
             /\ stack'[w][Len(stack[w])].cur = Len(papers')
             /\ hist' = hist]_vars

\* the CrossRef request raised, arXiv was never asked, and the placeholder of
\* the reference is about to be linked
C14_Witness ==
    /\ AtStep(1, "extract", "link")
    /\ crossref.status = "error"
    /\ arxiv = ArxivNotAsked
    /\ Top(1).cur = Len(papers)
    /\ papers[Top(1).cur].title = CurrentRef(1).title
    /\ papers[Top(1).cur].content_text = PlaceholderText(CurrentRef(1))

\* C15: every paper marked processed has a content_text that is not empty.
C15_ProcessedHasText ==
    \A p \in PaperIds :
        papers[p].processed =>
            /\ ~papers[p].content_text.none
            /\ papers[p].content_text.chars # <<>>


(***************************************************************************)
(* Specification of the parser: a call of extract_references_from_paper up *)
(* to the parse of the paper's text, for texts of up to MaxParseCites      *)
(* matches drawn from a wider vocabulary.                                  *)
(***************************************************************************)
MaxParseCites == 3

AuthorSmithUpper == <<"S", "M", "I", "T", "H">>

\* the matches of CiteMatches, the first author in capitals with another
\* title, and a year at the lower limit
ParseMatches ==
    CiteMatches \cup {MkMatch(AuthorSmithUpper, 2020, TitleOnGraph),
                      MkMatch(AuthorSmith, 1900, TitleGraph)}

ParseTexts ==
    {CitingText(c, d) : c \in SeqsUpTo(ParseMatches, MaxParseCites), d \in BOOLEAN}

InitParse == InitExtract(1, ParseTexts, {"text"}, {<<>>})

NextParse ==
    \E w \in Workers :
        \/ StartCall(w, 1, FALSE, 0, 1)
        \/ Begin(w)

SpecParse == InitParse /\ [][NextParse]_vars

\* the text worker w parsed, the list the parser returned, and the key of the
\* deduplication
Parsed(w) == AtStep(w, "extract", "resolve")

ParsedCites(w) == papers[Top(w).paper].content_text.cites

RefKey(m) == <<Lower(Strip(m.author)), m.year>>

\* the places in the match order of the matches that pass the validation
ValidPlaces(cites) ==
    {i \in DOMAIN cites :
        /\ Len(Strip(cites[i].author)) > MinAuthorLen
        /\ MinYear < cites[i].year /\ cites[i].year < MaxYear
        /\ Len(Strip(cites[i].title)) > MinTitleLen}

\* C16: the parser returns no two references with the same (lower-cased
\* author, year); of the validated matches, exactly the first of each key is
\* returned, in match order.
C16_ParserDedup ==
    \A w \in Workers :
        Parsed(w) =>
            LET refs == Top(w).refs
                cites == ParsedCites(w)
                valid == ValidPlaces(cites)
                first == {i \in valid :
                             \A j \in valid : RefKey(cites[j]) = RefKey(cites[i]) => i <= j}
            IN  /\ \A k, l \in DOMAIN refs :
                      RefKey(refs[k]) = RefKey(refs[l]) => k = l
                /\ Len(refs) = Cardinality(first)
                /\ \A k \in DOMAIN refs :
                      \E i \in first :
                         /\ refs[k].text = cites[i]
                         /\ Cardinality({j \in first : j <= i}) = k

\* three validated matches of one key, the authors in different letter case
\* and the titles different: the first is the one returned
C16_Witness ==
    /\ Parsed(1)
    /\ Len(Top(1).refs) = 1
    /\ Len(ParsedCites(1)) = 3
    /\ ValidPlaces(ParsedCites(1)) = {1, 2, 3}
    /\ ParsedCites(1)[1].author # ParsedCites(1)[2].author
    /\ ParsedCites(1)[1].title # ParsedCites(1)[2].title
    /\ Top(1).refs[1].text = ParsedCites(1)[1]

\* the places of the matches of the bare "Author (Year)" pattern, which
\* captures no title, whose author and year pass their checks
BarePlaces(cites) ==
    {i \in DOMAIN cites :
        /\ cites[i].title = <<>>
        /\ Len(Strip(cites[i].author)) > MinAuthorLen
        /\ MinYear < cites[i].year /\ cites[i].year < MaxYear}

\* C17: a bare "Author (Year)" match with a valid author and year yields a
\* reference: the list returned holds a reference of its (author, year), and
\* when the match is the first of its key, that reference has an empty title.
C17_BareCitationKept ==
    \A w \in Workers :
        Parsed(w) =>
            \A i \in BarePlaces(ParsedCites(w)) :
                \E k \in DOMAIN Top(w).refs :
                    /\ RefKey(Top(w).refs[k]) = RefKey(ParsedCites(w)[i])
                    /\ (\A j \in 1..(i - 1) :
                            RefKey(ParsedCites(w)[j]) # RefKey(ParsedCites(w)[i]))
                        => Top(w).refs[k].title = <<>>


(***************************************************************************)
(* Batch processing: Command.process_all_papers of the management command  *)
(* process_references_recursively.  The command runs in one process: each  *)
(* extraction is the call of worker 1 and runs to its return before the    *)
(* loop goes on.                                                           *)
(***************************************************************************)
MaxBatchPapers == 3

\* Paper.objects.filter(processed=True).order_by('-uploaded_at'), as ids
ProcessedNewestFirst(db) ==
    LET ids == {p \in DOMAIN db : db[p].processed}
    IN  [k \in 1..Cardinality(ids) |->
            CHOOSE p \in ids : Cardinality({q \in ids : q > p}) = k - 1]

\* lines 117-140: count the papers to process; with none the command returns
BatchStart(recursive, max_depth, batch_size) ==
    /\ batch.pc = "idle"
    /\ \A w \in Workers : ~Running(w)
    /\ \E total_papers \in {Len(ProcessedNewestFirst(papers))} :
          batch' = [NoBatch EXCEPT !.pc = IF total_papers = 0 THEN "done" ELSE "batch",
                                   !.recursive = recursive,
                                   !.max_depth = max_depth,
                                   !.batch_size = batch_size,
                                   !.total_papers = total_papers]
    /\ UNCHANGED <<papers, edges, engineVars, lastCall, netVars, rankVars, queryVars,
                   stack, crossref, arxiv, hist>>

\* lines 142-150: for i in range(0, total_papers, batch_size), the slice
\* papers[i:i + batch_size] is fetched from the table as it is now
BatchSlice ==
    /\ batch.pc = "batch"
    /\ batch' = IF batch.i >= batch.total_papers
                THEN [batch EXCEPT !.pc = "done"]
                ELSE [batch EXCEPT !.pc = "paper",
                                   !.slice = Slice(ProcessedNewestFirst(papers),
                                                   batch.i, batch.i + batch.batch_size),
                                   !.j = 1]
    /\ UNCHANGED <<papers, edges, engineVars, lastCall, netVars, rankVars, queryVars,
                   stack, crossref, arxiv, hist>>

\* lines 152-160: for paper in batch, the call of extract_references_from_paper
BatchCall ==
    /\ batch.pc = "paper"
    /\ IF batch.j > Len(batch.slice)
       THEN /\ batch' = [batch EXCEPT !.pc = "batch", !.i = @ + batch.batch_size]
            /\ UNCHANGED stack
       ELSE /\ batch' = [batch EXCEPT !.pc = "call"]
            /\ stack' = [stack EXCEPT ![1] =
                            <<ExtractFrame(batch.slice[batch.j], batch.recursive,
                                           batch.max_depth)>>]
    /\ UNCHANGED <<papers, edges, engineVars, lastCall, netVars, rankVars, queryVars,
                   crossref, arxiv, hist>>

\* a loop that ends at the first failed paper
AfterAttemptStopOnFailure(b, success) ==
    IF success
    THEN [b EXCEPT !.pc = "paper", !.j = @ + 1, !.processed_count = @ + 1,
                   !.success_count = @ + 1]
    ELSE [b EXCEPT !.pc = "done", !.processed_count = @ + 1, !.error_count = @ + 1]

\* lines 162-176: the counters after the call returned success
AfterAttempt(b, success) ==
    IF success
    THEN [b EXCEPT !.pc = "paper", !.j = @ + 1, !.processed_count = @ + 1,
                   !.success_count = @ + 1]
    ELSE [b EXCEPT !.pc = "paper", !.j = @ + 1, !.processed_count = @ + 1,
                   !.error_count = @ + 1]

\* the call has returned: its value is counted and the loop goes on
BatchCount ==
    /\ batch.pc = "call"
    /\ ~Running(1)
    /\ batch' = AfterAttempt(batch, hist[Len(hist)].ret)
    /\ UNCHANGED <<papers, edges, engineVars, lastCall, netVars, rankVars, queryVars,
                   stack, crossref, arxiv, hist>>

(***************************************************************************)
(* Specification of the batch command: up to MaxBatchPapers stored papers, *)
(* processed with a text, processed without one (a row edited in the       *)
(* admin), or not processed; any batch size up to MaxBatchPapers.          *)
(***************************************************************************)
BatchPapers ==
    {MkPaper(TitleSurvey, AuthorKim, 0,
             CitingText(<<MkMatch(AuthorSmith, 2020, TitleGraph)>>, FALSE),
             FALSE, NoText, TRUE),
     MkPaper(TitleSurvey, AuthorKim, 0, NoText, FALSE, NoText, TRUE),
     MkPaper(TitleSurvey, AuthorKim, 0, PlainText(<<"x">>), FALSE, NoText, FALSE)}

BatchInputs ==
    {[recursive |-> TRUE, max_depth |-> d, batch_size |-> n] :
        d \in 0..1, n \in 1..MaxBatchPapers}

InitBatch ==
    /\ chunk_size = MaxChunkSize
    /\ chunk_overlap = 1
    /\ papers \in SeqsUpTo(BatchPapers, MaxBatchPapers)
    /\ edges = <<>>
    /\ lastCall = NoCall
    /\ net = NoNet
    /\ rank = NoRank
    /\ stack = <<<<>>>>
    /\ crossref = CrossrefNotAsked
    /\ arxiv = ArxivNotAsked
    /\ hist = <<>>
    /\ batch = NoBatch
    /\ answer = NoAnswer
    /\ excerpt = NoExcerpt
    /\ extractor = NoExtractor
    /\ tree = NoTree

NextBatch ==
    \/ \E in \in BatchInputs : BatchStart(in.recursive, in.max_depth, in.batch_size)
    \/ BatchSlice
    \/ BatchCall
    \/ BatchCount
    \/ Begin(1)
    \/ Resolve(1)
    \/ Create(1)
    \/ LinkGet(1)
    \/ LinkInsert(1)
    \/ Finish(1)
    \/ RecurseStep(1)
    \/ Return(1)

SpecBatch == InitBatch /\ [][NextBatch]_vars

\* the calls made so far that returned this value
Attempts(ret) == {k \in DOMAIN hist : hist[k].ret = ret}

\* C18: a failed extraction does not end the run: between two papers the
\* counters add up to the number of extraction attempts, error_count counting
\* the failed ones; the papers of the batch fetched are attempted one after
\* the other whatever the calls return, and the command ends only when the
\* range of batches is used up.
C18_BatchIsolation ==
    /\ batch.pc \in {"batch", "paper", "done"} =>
          /\ batch.error_count = Cardinality(Attempts(FALSE))
          /\ batch.success_count = Cardinality(Attempts(TRUE))
          /\ batch.success_count + batch.error_count = Len(hist)
    /\ batch.pc = "paper" =>
          \A k \in 1..(batch.j - 1) :
              hist[Len(hist) - (batch.j - 1) + k].paper = batch.slice[k]
    /\ batch.pc = "done" => batch.i >= batch.total_papers

\* a finished run in which a failed extraction was followed by a successful
\* one in the same slice
C18_Witness ==
    /\ batch.pc = "done"
    /\ batch.error_count > 0
    /\ batch.success_count > 0
    /\ Len(batch.slice) > 1
    /\ \E k \in 1..(Len(hist) - 1) : ~hist[k].ret /\ hist[k + 1].ret


(***************************************************************************)
(* Specification of sibling extractions: two stored papers with texts of   *)
(* their own, and two workers, each extracting papers at the same time as  *)
(* the other or one after the other.                                       *)
(***************************************************************************)
InitSiblings ==
    /\ chunk_size = MaxChunkSize
    /\ chunk_overlap = 1
    /\ \E t1, t2 \in CitingTexts(1) :
          papers = <<UploadedPaper("text", t1), UploadedPaper("text", t2)>>
    /\ edges = <<>>
    /\ lastCall = NoCall
    /\ net = NoNet
    /\ rank = NoRank
    /\ stack = <<<<>>, <<>>>>
    /\ crossref = CrossrefNotAsked
    /\ arxiv = ArxivNotAsked
    /\ hist = <<>>
    /\ batch = NoBatch
    /\ answer = NoAnswer
    /\ excerpt = NoExcerpt
    /\ extractor = NoExtractor
    /\ tree = NoTree

SpecSiblings == InitSiblings /\ [][NextConc]_vars

\* both stored papers cite one and the same valid reference, the extractions
\* of the two papers have both returned, and the paper the first resolution
\* created is one the local lookups find for the reference
SiblingsDone ==
    /\ \A w \in Workers : ~Running(w)
    /\ Len(hist) = 2
    /\ {hist[1].paper, hist[2].paper} = {1, 2}
    /\ papers[1].content_text.cites = papers[2].content_text.cites
    /\ ValidPlaces(papers[1].content_text.cites) = {1}
    /\ FindExistingPaper(SubSeq(papers, 1, 3),
                         ExtractReferencesFromText(papers[1].content_text)[1]) = 3

\* C19: two extractions of different papers citing the same reference, which
\* no stored paper matches, end with one Paper record for it, the target of
\* both papers' edges, as either sequential order of the two gives.
C19_SiblingsSerializable ==
    SiblingsDone =>
        /\ Len(papers) = 3
        /\ Range(edges) = {MkEdge(1, 3), MkEdge(2, 3)}


(***************************************************************************)
(* Queries: RAGEngine.query, _query_single_paper, _query_cross_paper and   *)
(* query_reference_network.  A call has an outcome: it raises, or returns  *)
(* the triple (response, relevant chunks, sources); message tells a        *)
(* response that reports a failure from an answer built from chunks.  A    *)
(* chunk of the lists is the pair of its paper and chunk_index.            *)
(***************************************************************************)
MaxPapers == 10

ContentHits == 5

KeywordMinLen == 3

StopWords ==
    {<<"t", "h", "e">>, <<"a">>, <<"a", "n">>, <<"a", "n", "d">>, <<"o", "r">>,
     <<"b", "u", "t">>, <<"i", "n">>, <<"o", "n">>, <<"a", "t">>, <<"t", "o">>,
     <<"f", "o", "r">>, <<"o", "f">>, <<"w", "i", "t", "h">>, <<"b", "y">>,
     <<"i", "s">>, <<"a", "r", "e">>, <<"w", "a", "s">>, <<"w", "e", "r", "e">>,
     <<"b", "e">>, <<"b", "e", "e", "n">>, <<"h", "a", "v", "e">>, <<"h", "a", "s">>,
     <<"h", "a", "d">>, <<"d", "o">>, <<"d", "o", "e", "s">>, <<"d", "i", "d">>,
     <<"w", "i", "l", "l">>, <<"w", "o", "u", "l", "d">>, <<"c", "o", "u", "l", "d">>,
     <<"s", "h", "o", "u", "l", "d">>, <<"m", "a", "y">>, <<"m", "i", "g", "h", "t">>,
     <<"c", "a", "n">>, <<"w", "h", "a", "t">>, <<"h", "o", "w">>, <<"w", "h", "y">>,
     <<"w", "h", "e", "n">>, <<"w", "h", "e", "r", "e">>, <<"w", "h", "o">>,
     <<"w", "h", "i", "c", "h">>, <<"t", "h", "a", "t">>, <<"t", "h", "i", "s">>,
     <<"t", "h", "e", "s", "e">>, <<"t", "h", "o", "s", "e">>,
     <<"a", "b", "o", "u", "t">>, <<"f", "r", "o", "m">>, <<"i", "n", "t", "o">>,
     <<"t", "h", "r", "o", "u", "g", "h">>, <<"d", "u", "r", "i", "n", "g">>,
     <<"b", "e", "f", "o", "r", "e">>, <<"a", "f", "t", "e", "r">>,
     <<"a", "b", "o", "v", "e">>, <<"b", "e", "l", "o", "w">>,
     <<"b", "e", "t", "w", "e", "e", "n">>, <<"a", "m", "o", "n", "g">>}

\* re.findall(r'\b\w+\b', s): the maximal runs of word characters
RECURSIVE WordRunsAcc(_, _, _)
WordRunsAcc(s, cur, acc) ==
    IF s = <<>>
    THEN IF cur = <<>> THEN acc ELSE Append(acc, cur)
    ELSE IF IsWordChar(Head(s))
         THEN WordRunsAcc(Tail(s), Append(cur, Head(s)), acc)
         ELSE WordRunsAcc(Tail(s), <<>>, IF cur = <<>> THEN acc ELSE Append(acc, cur))

\* _extract_keywords(question), as the set list(set(keywords)) lists
ExtractKeywords(question) ==
    {w \in Range(WordRunsAcc(Lower(question), <<>>, <<>>)) :
        w \notin StopWords /\ Len(w) > KeywordMinLen}

\* the orders in which list(set(keywords)) can list the keywords
Orderings(S) == {f \in [1..Cardinality(S) -> S] : Range(f) = S}

\* _calculate_relevance_score as the fraction min(1, |I|/|U| + 0.1 * boost);
\* 0 when either side has no keyword
CalculateRelevanceScore(question, content) ==
    LET question_words == ExtractKeywords(question)
        content_words == ExtractKeywords(content)
        union == Cardinality(question_words \cup content_words)
        inter == Cardinality(question_words \cap content_words)
        boost == Cardinality({k \in question_words : Contains(k, Lower(content))})
    IN  IF question_words = {} \/ content_words = {} THEN <<0, 1>>
        ELSE IF 10 * inter + boost * union >= 10 * union THEN <<1, 1>>
        ELSE <<10 * inter + boost * union, 10 * union>>

\* list.sort(key=relevance_score, reverse=True): descending, stable
SortByRelevance(items) ==
    LET before(j, i) ==
            \/ FracGreater(items[j].relevance_score, items[i].relevance_score)
            \/ /\ ~FracGreater(items[i].relevance_score, items[j].relevance_score)
               /\ j < i
        pos(i) == 1 + Cardinality({j \in DOMAIN items : before(j, i)})
    IN  [k \in DOMAIN items |-> items[CHOOSE i \in DOMAIN items : pos(i) = k]]

\* a queryset of Paper rows in Meta.ordering ['-uploaded_at'], as ids
PapersNewestFirst(ids) ==
    [k \in 1..Cardinality(ids) |->
        CHOOSE p \in ids : Cardinality({q \in ids : q > p}) = k - 1]

\* content_text__icontains=keyword; a NULL text matches nothing
ContentHas(db, p, keyword) ==
    ~db[p].content_text.none /\ Contains(Lower(keyword), Lower(db[p].content_text.chars))

\* the loop over keywords[1:3] of _find_relevant_papers
RECURSIVE FindByContent(_, _, _)
FindByContent(db, keys, relevant_papers) ==
    IF keys = <<>> THEN relevant_papers
    ELSE FindByContent(db, Tail(keys),
             relevant_papers \o
                 Take(PapersNewestFirst({p \in DOMAIN db :
                          /\ ContentHas(db, p, Head(keys))
                          /\ p \notin Range(relevant_papers)}),
                      ContentHits))

\* _find_relevant_papers for the keywords in the order keys; keywords[0] of no
\* keyword raises IndexError, which the function answers with [].  The papers
\* of the model have no abstract.
FindRelevantPapers(db, keys) ==
    IF keys = <<>> THEN <<>>
    ELSE Take(FindByContent(db, Slice(keys, 1, 3),
                  Take(PapersNewestFirst({p \in DOMAIN db :
                           \/ Contains(Lower(keys[1]), Lower(db[p].title))
                           \/ ContentHas(db, p, keys[1])}),
                       MaxPapers)),
              MaxPapers)

\* the loops of _add_papers_recursive over the papers of todo, found at depth
RECURSIVE AddPapersRecursive(_, _, _, _, _)
AddPapersRecursive(es, todo, depth, max_depth, acc) ==
    IF todo = <<>> THEN acc
    ELSE IF Head(todo) \in acc.visited
    THEN AddPapersRecursive(es, Tail(todo), depth, max_depth, acc)
    ELSE AddPapersRecursive(es, Tail(todo), depth, max_depth,
             AddPapersRecursive(es, NetTodo(es, Head(todo), depth + 1, max_depth),
                 depth + 1, max_depth,
                 [visited |-> NetMarkVisited(acc.visited, Head(todo)),
                  network_papers |-> Append(acc.network_papers, Head(todo))]))

\* _get_reference_network_papers(start_paper, max_depth), run to its return
GetReferenceNetworkPapers(es, start, max_depth) ==
    AddPapersRecursive(es, NetTodo(es, start, 0, max_depth), 0, max_depth,
                       [visited |-> {start}, network_papers |-> <<start>>]).network_papers

\* the outcomes of a call
MessageTriple == [raised |-> FALSE, message |-> TRUE, chunks |-> <<>>, sources |-> <<>>]

Raises == [raised |-> TRUE, message |-> FALSE, chunks |-> <<>>, sources |-> <<>>]

AnswerTriple(items) ==
    [raised |-> FALSE, message |-> FALSE,
     chunks |-> [k \in DOMAIN items |->
                    [paper |-> items[k].paper, chunk_index |-> items[k].chunk]],
     sources |-> [k \in DOMAIN items |->
                     [paper |-> items[k].paper, chunk_id |-> items[k].chunk]]]

\* a stored paper; 0 is None and 0 - 1 an object that is not a Paper
IsPaper(db, p) == p \in DOMAIN db

\* _get_relevant_chunks_simple inside its try: [] when the paper is not a
\* Paper or the database raises
RelevantChunks(db, question, p, fault) ==
    IF ~IsPaper(db, p) \/ fault = "chunks" THEN <<>>
    ELSE GetRelevantChunksSimple(question, db[p])

\* all_relevant_chunks of the papers ps, sorted, the first top_k * 2
TopChunks(db, question, ps, fault) ==
    LET ChunksOf(p) ==
            LET chunks == RelevantChunks(db, question, p, fault)
            IN  [k \in DOMAIN chunks |->
                    [paper |-> p, chunk |-> chunks[k],
                     relevance_score |->
                         CalculateRelevanceScore(question, db[p].chunks[chunks[k] + 1])]]
        RECURSIVE All(_)
        All(rest) == IF rest = <<>> THEN <<>> ELSE ChunksOf(Head(rest)) \o All(Tail(rest))
    IN  Take(SortByRelevance(All(ps)), TopK * 2)

\* a call without a try/except around its body
TryNothing(outcome) == outcome

\* the try/except Exception around the body of query and of
\* query_reference_network
Try(outcome) == IF outcome.raised THEN MessageTriple ELSE outcome

\* _query_single_paper: the Paper table afterwards and the outcome; reading
\* .processed of an object that is not a Paper raises AttributeError
QuerySinglePaper(db, question, p, fault) ==
    IF ~IsPaper(db, p) THEN [papers |-> db, out |-> Raises]
    ELSE LET after == IF db[p].processed \/ fault = "process" THEN db
                      ELSE ProcessPaper(db, p).papers
             chunks == RelevantChunks(after, question, p, fault)
         IN  [papers |-> after,
              out |-> IF chunks = <<>> THEN MessageTriple
                      ELSE AnswerTriple([k \in DOMAIN chunks |->
                                            [paper |-> p, chunk |-> chunks[k]]])]

\* _query_cross_paper for the keywords in the order keys
QueryCrossPaper(db, question, keys, fault) ==
    LET relevant_papers == IF fault = "papers" THEN <<>>
                           ELSE FindRelevantPapers(db, keys)
        top_chunks == TopChunks(db, question, relevant_papers, fault)
    IN  IF relevant_papers = <<>> \/ top_chunks = <<>> THEN MessageTriple
        ELSE AnswerTriple(top_chunks)

\* query(question, paper, cross_paper); one call per behaviour
QueryCall(question, p, cross_paper, fault) ==
    /\ ~answer.called
    /\ \E keys \in Orderings(ExtractKeywords(question)) :
       \E r \in {IF p # 0 THEN QuerySinglePaper(papers, question, p, fault)
                 ELSE [papers |-> papers,
                       out |-> IF cross_paper
                               THEN QueryCrossPaper(papers, question, keys, fault)
                               ELSE MessageTriple]} :
       \E out \in {Try(r.out)} :
          /\ papers' = r.papers
          /\ answer' = [called |-> TRUE, op |-> "query", question |-> question,
                        paper |-> p, cross_paper |-> cross_paper, max_depth |-> 0,
                        fault |-> fault, raised |-> out.raised,
                        message |-> out.message, chunks |-> out.chunks,
                        sources |-> out.sources]
    /\ UNCHANGED <<edges, engineVars, lastCall, netVars, rankVars, extractVars,
                   helperVars>>

\* query_reference_network(question, start_paper, max_depth); when the
\* traversal raises (no Paper, a database error) it answers [start_paper]
QueryReferenceNetworkCall(question, start, max_depth, fault) ==
    /\ ~answer.called
    /\ \E network_papers \in
             {IF ~IsPaper(papers, start) \/ fault = "network" THEN <<start>>
              ELSE GetReferenceNetworkPapers(edges, start, max_depth)} :
       \E top_chunks \in {TopChunks(papers, question, network_papers, fault)} :
       \E out \in {Try(IF top_chunks = <<>> THEN MessageTriple
                       ELSE AnswerTriple(top_chunks))} :
          answer' = [called |-> TRUE, op |-> "query_reference_network",
                     question |-> question, paper |-> start, cross_paper |-> FALSE,
                     max_depth |-> max_depth, fault |-> fault, raised |-> out.raised,
                     message |-> out.message, chunks |-> out.chunks,
                     sources |-> out.sources]
    /\ UNCHANGED <<papers, edges, engineVars, lastCall, netVars, rankVars, extractVars,
                   helperVars>>

(***************************************************************************)
(* Specification of the queries: up to MaxQueryPapers stored papers, with  *)
(* chunks, with a text not yet cut into chunks, or with nothing to cut;    *)
(* any question of the vocabulary, any paper argument, any step whose      *)
(* first database access raises.                                           *)
(***************************************************************************)
MaxQueryPapers == 2

QueryText ==
    <<"b", "e", "c", "a", "u", "s", "e", " ", "m", "o", "b", "i", "l", "e", " ",
      "d", "e", "v", "i", "c", "e", "s", " ", "w", "o", "r", "k", " ",
      "t", "h", "e", " ", "m", "e", "t", "h", "o", "d", " ", "i", "s", " ",
      "a", " ", "s", "t", "e", "p">>

\* a paper with its chunks, one with a text only, one with neither text nor file
QueryPapers ==
    {ProcessPaper(<<MkPaper(TitleGraph, AuthorSmith, 2020, PlainText(QueryText),
                            FALSE, NoText, FALSE)>>, 1).papers[1],
     MkPaper(TitleSurvey, AuthorKim, 0, PlainText(QueryText), FALSE, NoText, FALSE),
     MkPaper(TitleNetworks, AuthorJones, 0, NoText, FALSE, NoText, FALSE)}

QueryFaults == {"none", "process", "chunks", "papers", "network"}

InitQuery ==
    /\ chunk_size = MaxChunkSize
    /\ chunk_overlap = 1
    /\ papers \in {ps \in SeqsUpTo(QueryPapers, MaxQueryPapers) : TRUE}
    /\ edges \in {es \in NetEdgeLists(MaxQueryPapers, 1) :
                     \A k \in DOMAIN es : {es[k].source, es[k].target} \subseteq PaperIds}
    /\ lastCall = NoCall
    /\ net = NoNet
    /\ rank = NoRank
    /\ ExtractIdle

NextQuery ==
    \/ \E q \in RankQuestions, p \in PaperIds \cup {0, 0 - 1}, c \in BOOLEAN,
          fault \in QueryFaults : QueryCall(q, p, c, fault)
    \/ \E q \in RankQuestions, p \in PaperIds \cup {0, 0 - 1}, d \in 0..MaxNetDepth,
          fault \in QueryFaults : QueryReferenceNetworkCall(q, p, d, fault)

SpecQuery == InitQuery /\ [][NextQuery]_vars

\* C20: a query call returns (it never raises); what it returns is either an
\* answer with chunks and sources or a message with both lists empty; and it is
\* a message when no paper is given with cross_paper off, when the question has
\* no keyword for the cross-paper search, when the paper asked about has no
\* chunks, when the paper argument is not a Paper, and when the chunk
\* retrieval or the paper search fails.
C20_QueryFailureIsMessage ==
    answer.called =>
        /\ ~answer.raised
        /\ answer.message <=> answer.chunks = <<>>
        /\ answer.message <=> answer.sources = <<>>
        /\ (answer.op = "query" /\ answer.paper = 0 /\ ~answer.cross_paper)
              => answer.message
        /\ (answer.op = "query" /\ answer.paper = 0
              /\ ExtractKeywords(answer.question) = {}) => answer.message
        /\ (answer.op = "query" /\ answer.paper = 0 /\ answer.fault = "papers")
              => answer.message
        /\ (answer.op = "query" /\ answer.paper \in PaperIds
              /\ papers[answer.paper].chunks = <<>>) => answer.message
        /\ (answer.op = "query_reference_network"
              /\ \A p \in PaperIds : papers[p].chunks = <<>>) => answer.message
        /\ ~IsPaper(papers, answer.paper) /\ answer.op = "query_reference_network"
              => answer.message
        /\ (answer.op = "query" /\ answer.paper = 0 - 1) => answer.message
        /\ answer.fault = "chunks" => answer.message

\* query was handed an object that is not a Paper: the AttributeError raised in
\* _query_single_paper ended as a message
C20_Witness ==
    /\ answer.called
    /\ answer.op = "query"
    /\ answer.paper = 0 - 1
    /\ answer.message
    /\ ~answer.raised
    /\ \E p \in PaperIds : papers[p].chunks # <<>>


(***************************************************************************)
(* The upload view and the manual endpoint of papers/views.py: both call   *)
(* extract_references_from_paper(str(paper.id)) and leave recursive and    *)
(* max_depth to their defaults.                                            *)
(***************************************************************************)
DefaultRecursive == TRUE

DefaultMaxDepth == 3

\* PaperUploadView.perform_create: the serializer has stored the uploaded file
\* as a new paper, which has no content_text yet
PerformCreate(w) ==
    /\ papers[1].has_file /\ papers[1].content_text.none
    /\ StartCall(w, 1, DefaultRecursive, DefaultMaxDepth, 1)

\* process_paper_references(request, pk): 400 without content and file
ProcessPaperReferences(w, pk) ==
    /\ papers[pk].content_text.chars # <<>> \/ papers[pk].has_file
    /\ StartCall(w, pk, DefaultRecursive, DefaultMaxDepth, 1)

InitUpload == InitExtract(1, CitingTexts(1), {"text", "file", "none"}, OtherPapers)

NextUpload ==
    \E w \in Workers :
        \/ PerformCreate(w)
        \/ \E pk \in PaperIds : ProcessPaperReferences(w, pk)
        \/ Begin(w)
        \/ Resolve(w)
        \/ Create(w)
        \/ LinkGet(w)
        \/ LinkInsert(w)
        \/ Finish(w)
        \/ RecurseStep(w)
        \/ Return(w)

SpecUpload == InitUpload /\ [][NextUpload]_vars

\* the paper the view has called extract_references_from_paper on; 0 before
CalledPaper ==
    IF hist # <<>> THEN hist[1].paper
    ELSE IF Running(1) THEN stack[1][1].paper ELSE 0

\* C21: the extraction the upload view and the manual endpoint trigger extracts
\* no target paper (no nested call of extract_references_from_paper), and every
\* edge it adds leaves the paper it was called on.
C21_NoRecursionOnUpload ==
    /\ \A w \in Workers : \A i \in DOMAIN stack[w] :
          stack[w][i].kind = "extract" => i = 1
    /\ \A k \in DOMAIN edges : edges[k].source = CalledPaper


\* the rows of the second lookup: title__icontains and author__icontains
PartialMatches(db, ref) ==
    {p \in DOMAIN db :
        /\ Contains(Lower(Take(ref.title, TitleMatchChars)), Lower(db[p].title))
        /\ Contains(Lower(Take(ref.author, AuthorMatchChars)), Lower(db[p].author))}

\* the rows of the third lookup: author__icontains and year
AuthorYearMatches(db, ref) ==
    {p \in DOMAIN db :
        /\ Contains(Lower(Take(ref.author, AuthorMatchChars)), Lower(db[p].author))
        /\ db[p].year = ref.year}

(***************************************************************************)
(* Specification of the resolution: one call on a paper citing one work,   *)
(* beside up to MaxResolvePapers stored papers that share a part of the    *)
(* title, the author or the year with the citations.                       *)
(***************************************************************************)
MaxResolvePapers == 2

ResolvePapers ==
    {MkPaper(TitleOnGraph, AuthorSmithEtAl, 2019, PlainText(<<"x">>), FALSE, NoText, TRUE),
     MkPaper(TitleNetworks, AuthorJohnSmith, 2020, PlainText(<<"x">>), FALSE, NoText, TRUE),
     MkPaper(TitleGraphUpper, AuthorJones, 2021, PlainText(<<"x">>), FALSE, NoText, TRUE)}

InitResolve ==
    InitExtract(1, CitingTexts(1), {"text"}, SeqsUpTo(ResolvePapers, MaxResolvePapers))

NextResolve == NextExtract(ConcInputs, 1)

SpecResolve == InitResolve /\ [][NextResolve]_vars

\* C22: the resolution of a reference returns the first hit of, in this order,
\* the exact title lookup, the partial title and author lookup, the author and
\* year lookup; the lookups create nothing and ask no service; a service is
\* asked and a paper created only when the three found nothing, and the paper
\* created is a placeholder only when the external search returned none.
C22_ResolutionOrder ==
    [][\A w \in Workers :
          /\ (/\ AtStep(w, "extract", "resolve")
              /\ Top(w).i <= Len(Top(w).refs)
              /\ stack'[w] # stack[w])
             => /\ papers' = papers /\ crossref' = crossref /\ arxiv' = arxiv
                /\ Len(stack'[w]) = Len(stack[w])
                /\ IF SameTitle(papers, CurrentRef(w)) # {}
                   THEN /\ stack'[w][Len(stack[w])].pc = "link"
                        /\ stack'[w][Len(stack[w])].cur
                              = FirstPaper(SameTitle(papers, CurrentRef(w)))
                   ELSE IF PartialMatches(papers, CurrentRef(w)) # {}
                   THEN /\ stack'[w][Len(stack[w])].pc = "link"
                        /\ stack'[w][Len(stack[w])].cur
                              = FirstPaper(PartialMatches(papers, CurrentRef(w)))
                   ELSE IF AuthorYearMatches(papers, CurrentRef(w)) # {}
                   THEN /\ stack'[w][Len(stack[w])].pc = "link"
                        /\ stack'[w][Len(stack[w])].cur
                              = FirstPaper(AuthorYearMatches(papers, CurrentRef(w)))
                   ELSE stack'[w][Len(stack[w])].pc = "create"
          /\ (papers' # papers \/ crossref' # crossref \/ arxiv' # arxiv)
             /\ AtStep(w, "extract", "create")
             => /\ SameTitle(papers, CurrentRef(w)) = {}
                /\ PartialMatches(papers, CurrentRef(w)) = {}
                /\ AuthorYearMatches(papers, CurrentRef(w)) = {}
                /\ crossref' # CrossrefNotAsked
                /\ Len(papers') = Len(papers) + 1
                /\ (papers'[Len(papers')].content_text = PlaceholderText(CurrentRef(w)))
                      => \/ crossref'.status = "error"
                         \/ arxiv'.status = "error"
                         \/ arxiv'.status = "ok" /\ arxiv'.entries = <<>>]_vars

\* the second lookup decided: no stored title equals the reference's, a paper
\* matches by part of the title and the author and is the one linked, and the
\* third lookup alone would have returned another paper
C22_Witness ==
    /\ AtStep(1, "extract", "link")
    /\ SameTitle(papers, CurrentRef(1)) = {}
    /\ PartialMatches(papers, CurrentRef(1)) # {}
    /\ Top(1).cur = FirstPaper(PartialMatches(papers, CurrentRef(1)))
    /\ AuthorYearMatches(papers, CurrentRef(1)) # {}
    /\ Top(1).cur # FirstPaper(AuthorYearMatches(papers, CurrentRef(1)))


(***************************************************************************)
(* Specification of the skip: one recursive call of any depth up to        *)
(* MaxSkipDepth on a paper citing one work.                                *)
(***************************************************************************)
MaxSkipDepth == 4

InitSkip == InitExtract(1, CitingTexts(1), {"text"}, OtherPapers)

NextSkip == NextExtract({[recursive |-> TRUE, max_depth |-> d] : d \in 0..MaxSkipDepth}, 1)

SpecSkip == InitSkip /\ [][NextSkip]_vars

\* the paper the loop of _process_references_recursively is at
RecurseTarget(w) == Top(w).referenced_papers[Top(w).i]

\* C23: a turn of the loop of _process_references_recursively at a paper that
\* has an outgoing edge starts no extraction and changes no table: the loop
\* moves on to the next paper, for every remaining depth above 0.
C23_SkipProcessed ==
    [][\A w \in Workers :
          (/\ AtStep(w, "recurse", "loop")
           /\ Top(w).max_depth > 0
           /\ Top(w).i <= Len(Top(w).referenced_papers)
           /\ \E k \in DOMAIN edges : edges[k].source = RecurseTarget(w)
           /\ stack'[w] # stack[w])
          => /\ edges' = edges
             /\ papers' = papers
             /\ hist' = hist
             /\ Len(stack'[w]) = Len(stack[w])
             /\ stack'[w][Len(stack[w])].i = Top(w).i + 1
             /\ \A i \in 1..(Len(stack[w]) - 1) : stack'[w][i] = stack[w][i]]_vars

\* a recursion with two levels left has skipped a paper that had an edge
C23_Witness ==
    \E i \in DOMAIN stack[1] :
        /\ stack[1][i].kind = "recurse"
        /\ stack[1][i].max_depth = 2
        /\ stack[1][i].skipped # {}
        /\ \A t \in stack[1][i].skipped : \E k \in DOMAIN edges : edges[k].source = t


(***************************************************************************)
(* Response content: RAGEngine._extract_relevant_content and               *)
(* _is_sentence_relevant.                                                  *)
(***************************************************************************)
SentenceMinLen == 20

SentenceCap == 5

RelevantWordMinLen == 3

\* str.split('.'): the pieces between the dots, empty ones included
SplitDot(s) ==
    LET dots == {i \in DOMAIN s : s[i] = "."}
        n == Cardinality(dots)
        pos(k) == IF k = 0 THEN 0
                  ELSE IF k = n + 1 THEN Len(s) + 1
                  ELSE CHOOSE i \in dots : Cardinality({j \in dots : j < i}) = k - 1
    IN  [k \in 1..(n + 1) |-> SubSeq(s, pos(k - 1) + 1, pos(k) - 1)]

\* sep.join(parts)
RECURSIVE JoinWith(_, _)
JoinWith(parts, sep) ==
    IF parts = <<>> THEN <<>>
    ELSE IF Len(parts) = 1 THEN parts[1]
    ELSE parts[1] \o sep \o JoinWith(Tail(parts), sep)

\* _is_sentence_relevant(sentence, question)
IsSentenceRelevant(sentence, question) ==
    LET question_words == SelectSeq(Split(question), LAMBDA w : Len(w) > RelevantWordMinLen)
    IN  \/ \E i \in DOMAIN question_words : Contains(question_words[i], sentence)
        \/ /\ Contains(<<"m", "o", "b", "i", "l", "e">>, question)
           /\ Contains(<<"m", "o", "b", "i", "l", "e">>, sentence) \/ Contains(<<"d", "e", "v", "i", "c", "e">>, sentence)
        \/ /\ Contains(<<"l", "e", "a", "r", "n">>, question)
           /\ Contains(<<"l", "e", "a", "r", "n">>, sentence) \/ Contains(<<"s", "t", "u", "d", "y">>, sentence)
        \/ /\ Contains(<<"r", "e", "a", "s", "o", "n">>, question)
           /\ \/ Contains(<<"b", "e", "c", "a", "u", "s", "e">>, sentence)
              \/ Contains(<<"r", "e", "a", "s", "o", "n">>, sentence)
              \/ Contains(<<"p", "u", "r", "p", "o", "s", "e">>, sentence)

\* the loop over the sentences of one chunk, which ends at the break
RECURSIVE SentenceLoop(_, _, _)
SentenceLoop(sentences, question, relevant_sentences) ==
    IF sentences = <<>> THEN relevant_sentences
    ELSE LET sentence == Strip(Head(sentences))
         IN  IF Len(sentence) < SentenceMinLen
             THEN SentenceLoop(Tail(sentences), question, relevant_sentences)
             ELSE LET now == IF IsSentenceRelevant(Lower(sentence), question)
                             THEN Append(relevant_sentences, sentence)
                             ELSE relevant_sentences
                  IN  IF Len(now) >= SentenceCap THEN now
                      ELSE SentenceLoop(Tail(sentences), question, now)

\* the loop over the chunks
RECURSIVE ChunkLoop(_, _, _)
ChunkLoop(chunks, question, relevant_sentences) ==
    IF chunks = <<>> THEN relevant_sentences
    ELSE ChunkLoop(Tail(chunks), question,
                   SentenceLoop(SplitDot(Strip(Head(chunks))), question,
                                relevant_sentences))

\* relevant_sentences at the return of _extract_relevant_content
RelevantSentences(chunks, question) == ChunkLoop(chunks, question, <<>>)

\* _extract_relevant_content(chunks, question)
ExtractRelevantContent(chunks, question) ==
    LET relevant_sentences == RelevantSentences(chunks, question)
    IN  IF relevant_sentences # <<>> THEN JoinWith(relevant_sentences, <<".", " ">>)
        ELSE JoinWith(chunks, <<" ">>)

\* _generate_simple_response(question, chunks, paper) up to its call of
\* _extract_relevant_content(chunks, question_lower); one call per behaviour
ExtractRelevantContentCall(p, question) ==
    /\ ~excerpt.called
    /\ papers[p].chunks # <<>>
    /\ \E question_lower \in {Lower(question)} :
          excerpt' = [called |-> TRUE, question |-> question, paper |-> p,
                      sentences |-> RelevantSentences(papers[p].chunks, question_lower),
                      text |-> ExtractRelevantContent(papers[p].chunks, question_lower)]
    /\ UNCHANGED <<papers, edges, engineVars, lastCall, netVars, rankVars, extractVars,
                   answer, extractor, tree>>

(***************************************************************************)
(* Specification of the response content: one paper of up to               *)
(* MaxExcerptChunks chunks, each of up to MaxSentences sentences that      *)
(* speak of mobile devices, after at most one that does not or is short.   *)
(***************************************************************************)
MaxExcerptChunks == 2

MaxSentences == 6

SentenceMobile == <<"m", "o", "b", "i", "l", "e", " ", "d", "e", "v", "i", "c", "e", "s", " ", "h", "e", "l", "p", " ", "p", "e", "o", "p", "l", "e">>

SentenceWeather == <<"t", "h", "e", " ", "w", "e", "a", "t", "h", "e", "r", " ", "w", "a", "s", " ", "c", "o", "l", "d", " ", "t", "o", "d", "a", "y">>

SentenceShort == <<"m", "o", "b", "i", "l", "e", " ", "p", "h", "o", "n", "e", "s">>

ExcerptChunkTexts ==
    {JoinWith(first \o [k \in 1..n |-> SentenceMobile], <<".", " ">>) \o <<".">> :
        first \in SeqsUpTo({SentenceWeather, SentenceShort}, 1), n \in 0..MaxSentences}
        \ {<<".">>}

InitExcerpt ==
    /\ \E cs \in SeqsUpTo(ExcerptChunkTexts, MaxExcerptChunks) :
          papers = << [MkPaper(TitleX, TitleX, 0, PlainText(<<"x">>), FALSE, NoText,
                               cs # <<>>)
                         EXCEPT !.chunks = cs] >>
    /\ edges = <<>>
    /\ chunk_size = 2
    /\ chunk_overlap = 1
    /\ lastCall = NoCall
    /\ net = NoNet
    /\ rank = NoRank
    /\ ExtractIdle

NextExcerpt == \E p \in PaperIds, q \in RankQuestions : ExtractRelevantContentCall(p, q)

SpecExcerpt == InitExcerpt /\ [][NextExcerpt]_vars

\* C24: when _extract_relevant_content finds relevant sentences, the content
\* it returns is made of at most 5 of them, counted over all the chunks.
C24_SentenceCap ==
    (excerpt.called /\ excerpt.sentences # <<>>) => Len(excerpt.sentences) <= SentenceCap


\* C25: when the CrossRef request of the external search fails (it raises, or
\* answers with a status other than 200), the same search still sends the
\* arXiv request before the resolver falls back to a placeholder.
C25_FailureFallsThrough ==
    [][\A w \in Workers :
          (/\ AtStep(w, "extract", "create")
           /\ stack'[w] # stack[w]
           /\ arxiv = ArxivNotAsked
           /\ crossref'.status \in {"error", "non200"})
          => arxiv' # ArxivNotAsked]_vars


\* C26: no row of the Reference table has the same paper as source and target.
C26_NoSelfEdge == \A k \in DOMAIN edges : edges[k].source # edges[k].target


\* the papers that were processed when the command counted them: papers made
\* since are processed and newer, so these are the oldest total_papers
ProcessedAtStart ==
    LET all == ProcessedNewestFirst(papers)
    IN  {all[k] : k \in (Len(all) - batch.total_papers + 1)..Len(all)}

\* the calls of extract_references_from_paper the command made on paper p
BatchCallsOn(p) == {k \in DOMAIN hist : hist[k].paper = p}

\* C27: when process_all_papers is through, it has called
\* extract_references_from_paper once on each paper that was processed when it
\* started, and on no other paper.
C27_BatchCoverage ==
    batch.pc = "done" =>
        /\ \A p \in ProcessedAtStart : Cardinality(BatchCallsOn(p)) = 1
        /\ \A k \in DOMAIN hist : hist[k].paper \in ProcessedAtStart


\* C28: after a call of process_paper that returned True, the paper's
\* processed flag is true.
C28_SuccessMeansProcessed ==
    (lastCall.op = "process_paper" /\ lastCall.ret) => papers[lastCall.paper].processed


(***************************************************************************)
(* RecursiveReferenceExtractor of papers/paper_downloader.py.  The module  *)
(* holds one instance, recursive_extractor; the upload view of             *)
(* reference_graph/views.py starts one daemon thread per uploaded paper    *)
(* that calls process_uploaded_paper on it.  extractor.frames[t] is the    *)
(* call stack of thread t, the extract_references_from_paper call it makes *)
(* runs on stack[t]; extractor.starts lists the papers that passed the     *)
(* guard of extract_references_recursively, extractor.calls the returned   *)
(* process_uploaded_paper calls.                                           *)
(***************************************************************************)
\* self.max_depth = 3
ExtractorMaxDepth == 3

MaxExtractorCalls == 2

\* a frame of extract_references_recursively(paper, depth); the frame of depth 0
\* starts in process_uploaded_paper, at pc "process"
ExtractorFrame(p, depth, pc) ==
    [paper |-> p, depth |-> depth, pc |-> pc, references |-> <<>>, i |-> 1,
     downloaded_papers |-> <<>>, hist_before |-> 0, marked |-> FALSE]

ExtractorTop(t) == extractor.frames[t][Len(extractor.frames[t])]

ExtractorAt(t, pc) == extractor.frames[t] # <<>> /\ ExtractorTop(t).pc = pc

ExtractorSetTop(t, f) == [extractor EXCEPT !.frames[t][Len(extractor.frames[t])] = f]

\* return ret from the top frame of thread t: the caller extends its list
\* and goes on with its loop; process_uploaded_paper returns what depth 0 returned
ExtractorReturn(x, t, ret) ==
    LET fs == x.frames[t]
        n == Len(fs)
    IN  IF n = 1
        THEN [x EXCEPT !.frames[t] = <<>>,
                       !.calls = Append(@, [paper |-> fs[1].paper, ret |-> ret,
                                            extracted |-> fs[1].marked])]
        ELSE [x EXCEPT !.frames[t] =
                 [SubSeq(fs, 1, n - 1)
                    EXCEPT ![n - 1].downloaded_papers = @ \o ret,
                           ![n - 1].i = @ + 1,
                           ![n - 1].pc = "loop"]]

\* the text of the file the download sources hold for paper p (NoText: they
\* hold none); for a paper without a file the model keeps it in file_text
RemoteText(db, p) == db[p].file_text

\* the table after download_paper stored a file for paper p
Downloaded(db, p, text) ==
    [db EXCEPT ![p].has_file = TRUE,
               ![p].file_text = text,
               ![p].processing_status = "downloaded",
               ![p].processed = FALSE]

\* thread t enters process_uploaded_paper(paper); the model follows up to
\* MaxExtractorCalls calls
EnterProcessUploadedPaper(t, p) ==
    /\ extractor.frames[t] = <<>>
    /\ ~Running(t)
    /\ Len(extractor.calls)
         + Cardinality({u \in Workers : extractor.frames[u] # <<>>}) < MaxExtractorCalls
    /\ extractor' = [extractor EXCEPT !.frames[t] = <<ExtractorFrame(p, 0, "process")>>]
    /\ UNCHANGED <<papers, edges, engineVars, lastCall, netVars, rankVars, extractVars,
                   answer, excerpt, tree>>

\* upload_paper of reference_graph/views.py: the paper has just been created
\* from the uploaded file, and a daemon thread is started that calls
\* recursive_extractor.process_uploaded_paper(paper)
UploadPaper(t, p) ==
    /\ papers[p].has_file /\ papers[p].content_text.none
    /\ ~papers[p].processed /\ papers[p].processing_status = "none"
    /\ papers[p].chunks = <<>>
    /\ \A u \in Workers : extractor.frames[u] # <<>> => extractor.frames[u][1].paper # p
    /\ EnterProcessUploadedPaper(t, p)

\* a later call of process_uploaded_paper, as test_recursive_download.py makes
\* it: on a paper that has content, while no upload is being worked on
ProcessUploadedPaper(t, p) ==
    /\ papers[p].content_text.chars # <<>>
    /\ \A u \in Workers : extractor.frames[u] = <<>>
    /\ EnterProcessUploadedPaper(t, p)

\* lines 387-390: rag_engine.process_paper(paper), then the call of depth 0
ExtractorProcess(t) ==
    /\ ExtractorAt(t, "process")
    /\ papers' = ProcessPaper(papers, ExtractorTop(t).paper).papers
    /\ extractor' = ExtractorSetTop(t, [ExtractorTop(t) EXCEPT !.pc = "guard"])
    /\ UNCHANGED <<edges, engineVars, lastCall, netVars, rankVars, extractVars,
                   answer, excerpt, tree>>

\* lines 341-342: if depth >= self.max_depth or str(paper.id) in
\* self.processed_papers: return []
ExtractorGuard(t) ==
    /\ ExtractorAt(t, "guard")
    /\ \E f \in {ExtractorTop(t)} :
          extractor' =
             IF f.depth >= ExtractorMaxDepth \/ f.paper \in extractor.processed_papers
             THEN ExtractorReturn(extractor, t, <<>>)
             ELSE ExtractorSetTop(t, [f EXCEPT !.pc = "mark"])
    /\ UNCHANGED <<papers, edges, engineVars, lastCall, netVars, rankVars, extractVars,
                   answer, excerpt, tree>>

\* line 344: self.processed_papers.add(str(paper.id))
ExtractorMark(processed_papers, p) == processed_papers \cup {p}

\* lines 344-349: the paper is marked and extract_references_from_paper is
\* called on it with its default arguments
ExtractorCall(t) ==
    /\ ExtractorAt(t, "mark")
    /\ \E f \in {ExtractorTop(t)} :
          /\ extractor' =
                [ExtractorSetTop(t, [f EXCEPT !.pc = "call", !.marked = TRUE,
                                              !.hist_before = Len(hist)])
                   EXCEPT !.processed_papers = ExtractorMark(@, f.paper),
                          !.starts = Append(@, [paper |-> f.paper, depth |-> f.depth])]
          /\ stack' = [stack EXCEPT ![t] =
                          <<ExtractFrame(f.paper, DefaultRecursive, DefaultMaxDepth)>>]
    /\ UNCHANGED <<papers, edges, engineVars, lastCall, netVars, rankVars, batch,
                   crossref, arxiv, hist, answer, excerpt, tree>>

\* lines 351-356: the call has returned; without success the result is [],
\* otherwise the loop over paper.references.all() starts
ExtractorAfterCall(t) ==
    /\ ExtractorAt(t, "call")
    /\ ~Running(t)
    /\ \E f \in {ExtractorTop(t)} :
       \E k \in {j \in (f.hist_before + 1)..Len(hist) : hist[j].paper = f.paper} :
          extractor' =
             IF ~hist[k].ret
             THEN ExtractorReturn(extractor, t, <<>>)
             ELSE ExtractorSetTop(t, [f EXCEPT !.pc = "loop",
                                               !.references =
                                                   ReferencesOf(edges, f.paper)])
    /\ UNCHANGED <<papers, edges, engineVars, lastCall, netVars, rankVars, extractVars,
                   answer, excerpt, tree>>

\* lines 358-362: the next reference; a target without file and without
\* content_text is to be downloaded; after the last one the list is returned
ExtractorLoop(t) ==
    /\ ExtractorAt(t, "loop")
    /\ \E f \in {ExtractorTop(t)} :
          extractor' =
             IF f.i > Len(f.references)
             THEN ExtractorReturn(extractor, t, f.downloaded_papers)
             ELSE IF /\ ~papers[f.references[f.i]].has_file
                     /\ papers[f.references[f.i]].content_text.chars = <<>>
             THEN ExtractorSetTop(t, [f EXCEPT !.pc = "download"])
             ELSE ExtractorSetTop(t, [f EXCEPT !.i = @ + 1])
    /\ UNCHANGED <<papers, edges, engineVars, lastCall, netVars, rankVars, extractVars,
                   answer, excerpt, tree>>

\* line 365: self.downloader.download_paper(target_paper); a download source
\* that holds a file for the paper may answer, or none does
ExtractorDownload(t, found) ==
    /\ ExtractorAt(t, "download")
    /\ \E f \in {ExtractorTop(t)} :
          /\ found => ~RemoteText(papers, f.references[f.i]).none
          /\ IF found
             THEN /\ papers' = Downloaded(papers, f.references[f.i],
                                          RemoteText(papers, f.references[f.i]))
                  /\ extractor' =
                        ExtractorSetTop(t, [f EXCEPT !.pc = "downloaded",
                                                     !.downloaded_papers =
                                                         Append(@, f.references[f.i])])
             ELSE /\ papers' = papers
                  /\ extractor' =
                        ExtractorSetTop(t, [f EXCEPT !.pc = "loop", !.i = @ + 1])
    /\ UNCHANGED <<edges, engineVars, lastCall, netVars, rankVars, extractVars,
                   answer, excerpt, tree>>

\* lines 369-376: rag_engine.process_paper(target_paper), then the call of
\* depth + 1 if depth < self.max_depth - 1
ExtractorRecurse(t) ==
    /\ ExtractorAt(t, "downloaded")
    /\ \E f \in {ExtractorTop(t)} :
          /\ papers' = ProcessPaper(papers, f.references[f.i]).papers
          /\ extractor' =
                IF f.depth < ExtractorMaxDepth - 1
                THEN [ExtractorSetTop(t, [f EXCEPT !.pc = "sub"])
                        EXCEPT !.frames[t] =
                           Append(@, ExtractorFrame(f.references[f.i], f.depth + 1,
                                                    "guard"))]
                ELSE ExtractorSetTop(t, [f EXCEPT !.pc = "loop", !.i = @ + 1])
    /\ UNCHANGED <<edges, engineVars, lastCall, netVars, rankVars, extractVars,
                   answer, excerpt, tree>>


(***************************************************************************)
(* Specification of the extractor: an uploaded paper citing "Smith (2020)  *)
(* Graph theory.", a stored paper of that title with neither file nor text *)
(* (created like the test paper of test_recursive_download.py) and a third *)
(* paper, either another such paper or a second upload citing the same     *)
(* work; up to MaxExtractorCalls calls of process_uploaded_paper, from one *)
(* thread per uploaded paper.                                              *)
(***************************************************************************)
\* the upload view starts one thread per uploaded paper
ExtractorThreads(db) == Cardinality({p \in DOMAIN db : db[p].has_file})

CiteGraph == MkMatch(AuthorSmith, 2020, TitleGraph)

CiteOnGraph == MkMatch(AuthorSmithEtAl, 2020, TitleOnGraph)

CiteNetworks == MkMatch(AuthorJones, 2021, TitleNetworks)

\* Paper.objects.create(title=..., author=..., year=...): no file, no text;
\* remote is the text of the file a download of it can find
BarePaper(title, author, year, remote) ==
    MkPaper(title, author, year, NoText, FALSE, remote, FALSE)

\* the two bare papers cite each other; or the first cites a work that is not
\* stored and the second cannot be downloaded; or two uploads cite the one
\* bare paper
ExtractorPapers ==
    { << UploadedPaper("file", CitingText(<<CiteGraph>>, FALSE)),
         BarePaper(TitleGraph, AuthorSmith, 2020, CitingText(<<CiteOnGraph>>, FALSE)),
         BarePaper(TitleOnGraph, AuthorSmithEtAl, 2020, CitingText(<<CiteGraph>>, FALSE)) >>,
      << UploadedPaper("file", CitingText(<<CiteGraph>>, FALSE)),
         BarePaper(TitleGraph, AuthorSmith, 2020, CitingText(<<CiteNetworks>>, FALSE)),
         BarePaper(TitleOnGraph, AuthorSmithEtAl, 2020, NoText) >>,
      << UploadedPaper("file", CitingText(<<CiteGraph>>, FALSE)),
         BarePaper(TitleGraph, AuthorSmith, 2020, PlainText(<<"x">>)),
         UploadedPaper("file", CitingText(<<CiteGraph>>, FALSE)) >> }

InitExtractor ==
    /\ chunk_size = MaxChunkSize
    /\ chunk_overlap = 1
    /\ papers \in ExtractorPapers
    /\ edges = <<>>
    /\ lastCall = NoCall
    /\ net = NoNet
    /\ rank = NoRank
    /\ stack = [t \in 1..ExtractorThreads(papers) |-> <<>>]
    /\ crossref = CrossrefNotAsked
    /\ arxiv = ArxivNotAsked
    /\ hist = <<>>
    /\ batch = NoBatch
    /\ answer = NoAnswer
    /\ excerpt = NoExcerpt
    /\ extractor = [NoExtractor EXCEPT !.frames = [t \in DOMAIN stack |-> <<>>]]
    /\ tree = NoTree

NextExtractor ==
    \E t \in Workers :
        \/ \E p \in PaperIds : UploadPaper(t, p)
        \/ \E p \in PaperIds : ProcessUploadedPaper(t, p)
        \/ ExtractorProcess(t)
        \/ ExtractorGuard(t)
        \/ ExtractorCall(t)
        \/ ExtractorAfterCall(t)
        \/ ExtractorLoop(t)
        \/ \E found \in BOOLEAN : ExtractorDownload(t, found)
        \/ ExtractorRecurse(t)
        \/ Begin(t)
        \/ Resolve(t)
        \/ Create(t)
        \/ LinkGet(t)
        \/ LinkInsert(t)
        \/ Finish(t)
        \/ RecurseStep(t)
        \/ Return(t)

SpecExtractor == InitExtractor /\ [][NextExtractor]_vars

\* C29: over the lifetime of the extractor, extract_references_recursively
\* passes its guard at most once for any paper and never at a depth of
\* ExtractorMaxDepth or more, every paper that passed is still in
\* processed_papers, and a later process_uploaded_paper call on a paper that
\* was called before returns the empty list without extracting.
C29_VisitsOnce ==
    /\ \A j, k \in DOMAIN extractor.starts :
          j # k => extractor.starts[j].paper # extractor.starts[k].paper
    /\ \A k \in DOMAIN extractor.starts :
          /\ extractor.starts[k].depth < ExtractorMaxDepth
          /\ extractor.starts[k].paper \in extractor.processed_papers
    /\ \A j, k \in DOMAIN extractor.calls :
          (j < k /\ extractor.calls[j].paper = extractor.calls[k].paper)
             => extractor.calls[k].ret = <<>> /\ ~extractor.calls[k].extracted

(***************************************************************************)
(* build_reference_graph of papers/utils.py: the tree of the papers a      *)
(* paper refers to.  A node is the dict of the code without its title,     *)
(* author and year entries.                                                *)
(***************************************************************************)
\* None, where a node is expected
NoNode == [id |-> 0, depth |-> 0, references |-> <<>>]

\* a traversal that stops at the depth limit only
TreeStopDepthOnly(depth, max_depth, id, visited) == depth > max_depth

\* line 443: if depth > max_depth or str(current_paper.id) in visited
TreeStop(depth, max_depth, id, visited) == depth > max_depth \/ id \in visited

\* _build_graph_recursive(current_paper, depth, visited): the node, or NoNode,
\* and the visited set afterwards; BuildReferences is its loop over
\* current_paper.references.all(), refs being the targets still to come
RECURSIVE BuildGraphRecursive(_, _, _, _, _)
RECURSIVE BuildReferences(_, _, _, _, _, _)
BuildGraphRecursive(es, current_paper, depth, max_depth, visited) ==
    IF TreeStop(depth, max_depth, current_paper, visited)
    THEN [node |-> NoNode, visited |-> visited]
    ELSE LET r == BuildReferences(es, ReferencesOf(es, current_paper), depth,
                                  max_depth, visited \cup {current_paper}, <<>>)
         IN  [node |-> [id |-> current_paper, depth |-> depth,
                        references |-> r.references],
              visited |-> r.visited]

BuildReferences(es, refs, depth, max_depth, visited, references) ==
    IF refs = <<>>
    THEN [references |-> references, visited |-> visited]
    ELSE LET ref_node == BuildGraphRecursive(es, Head(refs), depth + 1, max_depth,
                                             visited)
         IN  BuildReferences(es, Tail(refs), depth, max_depth, ref_node.visited,
                             IF ref_node.node # NoNode
                             THEN Append(references, ref_node.node)
                             ELSE references)

\* lines 466-467: visited = set(); return _build_graph_recursive(paper, 0, visited)
BuildReferenceGraph(es, paper, max_depth) ==
    BuildGraphRecursive(es, paper, 0, max_depth, {}).node

\* a call of build_reference_graph(paper, max_depth); one call per behaviour
BuildReferenceGraphCall(paper, max_depth) ==
    /\ ~tree.called
    /\ tree' = [called |-> TRUE, paper |-> paper, max_depth |-> max_depth,
                root |-> BuildReferenceGraph(edges, paper, max_depth)]
    /\ UNCHANGED <<papers, edges, engineVars, lastCall, netVars, rankVars, extractVars,
                   answer, excerpt, extractor>>

(***************************************************************************)
(* Specification of the tree: any reference graph over NetPapers papers    *)
(* with at most MaxNetEdges Reference rows, cycles and self references     *)
(* included; one call of build_reference_graph on paper 1 with a max_depth *)
(* of 0..MaxTreeDepth.                                                     *)
(***************************************************************************)
MaxTreeDepth == 3

InitTree ==
    /\ papers = [i \in 1..NetPapers |->
                    MkPaper(TitleX, TitleX, 0, NoText, FALSE, NoText, FALSE)]
    /\ edges \in {es \in NetEdgeLists(NetPapers, MaxNetEdges) : NoDuplicateEdge(es)}
    /\ chunk_size = 2
    /\ chunk_overlap = 1
    /\ lastCall = NoCall
    /\ net = NoNet
    /\ rank = NoRank
    /\ ExtractIdle

NextTree == \E max_depth \in 0..MaxTreeDepth : BuildReferenceGraphCall(1, max_depth)

SpecTree == InitTree /\ [][NextTree]_vars

\* the nodes of a tree in the order they were made, each with its parent's id
\* (0 for the root)
RECURSIVE TreeNodes(_, _)
RECURSIVE ForestNodes(_, _)
TreeNodes(node, parent) ==
    <<[id |-> node.id, depth |-> node.depth, parent |-> parent]>>
        \o ForestNodes(node.references, node.id)

ForestNodes(nodes, parent) ==
    IF nodes = <<>> THEN <<>>
    ELSE TreeNodes(Head(nodes), parent) \o ForestNodes(Tail(nodes), parent)

ReturnedNodes == TreeNodes(tree.root, 0)

\* C30: the call of build_reference_graph returns a tree whose root is the
\* paper at depth 0, in which no paper is a node twice, every node's depth is
\* between 0 and max_depth and one more than its parent's, and every node but
\* the root is the target of a Reference row of its parent.
C30_BoundedTree ==
    tree.called =>
        /\ tree.root.id = tree.paper /\ tree.root.depth = 0
        /\ \A j, k \in DOMAIN ReturnedNodes :
              ReturnedNodes[j].id = ReturnedNodes[k].id => j = k
        /\ \A k \in DOMAIN ReturnedNodes :
              /\ ReturnedNodes[k].id \in PaperIds
              /\ ReturnedNodes[k].depth \in 0..tree.max_depth
              /\ ReturnedNodes[k].parent # 0 =>
                    /\ EdgeExists(edges, ReturnedNodes[k].parent, ReturnedNodes[k].id)
                    /\ \E j \in 1..(k - 1) :
                          /\ ReturnedNodes[j].id = ReturnedNodes[k].parent
                          /\ ReturnedNodes[k].depth = ReturnedNodes[j].depth + 1

\* a tree over a cycle: paper 1 refers to paper 2, paper 2 back to paper 1 and
\* on to paper 3, and the tree holds the three papers at depths 0, 1 and 2
C30_Witness ==
    /\ tree.called
    /\ tree.max_depth = 2
    /\ EdgeExists(edges, 1, 2) /\ EdgeExists(edges, 2, 1) /\ EdgeExists(edges, 2, 3)
    /\ Len(ReturnedNodes) = 3
    /\ \E k \in DOMAIN ReturnedNodes : ReturnedNodes[k].depth = 2

==========================================================================
